---- MODULE Spec2Model ----
(***************************************************************************)
(* Altitude estimation and flight control core of scarecrow_drone.         *)
(*                                                                         *)
(* The repository holds several independent scripts.  Each one is a        *)
(* program of its own; the variable prog says which program a behaviour    *)
(* runs, and every action is guarded by it:                                *)
(*   "start_flight"  scarecrow-drone/drone_scripts/start_flight.py (ver 1) *)
(*                   and start_flight_v2.py (ver 2): main thread, watchdog *)
(*                   thread, signal handler, force_kill_motors             *)
(*   "aac"           drone_scripts/autonomous_altitude_control.py          *)
(*   "filter"        AltitudeFilter.update of drone_scripts/               *)
(*                   autonomous_flight.py (same text in stream_altitude.py *)
(*                   and scarecrow-drone/drone_scripts/altitude_monitor.py)*)
(*   "force_kill"    force_kill_motors called twice in succession on an    *)
(*                   arbitrary vehicle state                               *)
(*                                                                         *)
(* Time in start_flight is counted in ticks of 50 ms (the land ramp's      *)
(* sleep), so 0.5 s = 10 ticks and MAX_FLIGHT_TIME = 10 s = 200 ticks.     *)
(* The clock is kept as the scripts use it: each thread's remaining sleep, *)
(* and time.time() - script_start_time (armedFor) once that is set.        *)
(***************************************************************************)
EXTENDS Integers, Sequences, FiniteSets, TLC

None == -1

(***************************************************************************)
(* Bounds of the model                                                     *)
(***************************************************************************)
\* connect() returns within this many ticks: one watchdog period of offsets
MaxConnectDelay == 9
\* the flight controller reports armed within this many arm-loop rounds, or never
MaxArmLate == 0
\* the EKF converges within this many rounds of the v2 wait loop, or never
MaxEkfLate == 0
\* sends to the flight controller that raise, per run
MaxFaults == 1
\* keys the operator presses during one run of autonomous_altitude_control.py
MaxKeys == 3
\* keys waiting unread in stdin
MaxPending == 1
\* present altitude samples fed to one AltitudeFilter
MaxSamples == 4
\* consecutive update calls without an altitude
MaxGap == 9
\* update calls on one filter that rests at a constant altitude
MaxSettle == 4
\* stationary_count is counted up to here in the flight scripts; a longer run
\* stays at this value
MaxCount == 5
\* the time since the last RC override send is counted up to this many ms in
\* the landing loop of autonomous_altitude_control.py and in the keyboard
\* read of interactive_throttle.py
MaxSilence == 600
\* milliseconds between two update calls
UpdatePeriod == 200

(***************************************************************************)
(* Program constants of start_flight.py, in ticks of 50 ms or PWM us       *)
(***************************************************************************)
MAX_FLIGHT_TIME == 200
WD_SLEEP == 10
RC_MIN == 1000
RC_MID == 1500
TAKEOFF_THROTTLE == 1160
TAKEOFF_STEP == 2
HOVER_THROTTLE == 1210
LAND_THROTTLE == 1090
LAND_STEP == 5
LAND_STEP_SLEEP == 1
LAND_HOLD == 100
LAND_CUT_SLEEP == 20
HOVER_TIME == 60
HOVER_SLEEP == 10
ARM_TIMEOUT == 200
ARM_SLEEP == 10
EKF_TIMEOUT == 30
EKF_SLEEP == 20
CONNECT_SLEEP == 40
EKF_CONFIG_SLEEP == 50
FK_SLEEP == 4
EXC_SLEEP == 2

(***************************************************************************)
(* Constants of drone_scripts/flight_constants.py: PWM in us, altitudes in *)
(* centimetres, times in milliseconds                                      *)
(***************************************************************************)
HOVER_PWM == 1625
CLIMB_PWM == 1630
LAND_PWM == 1510
THROTTLE_MIN == 1000
THROTTLE_MAX == 2000
NEUTRAL == 1500
DEFAULT_TARGET_ALTITUDE == 100
ALTITUDE_TOLERANCE == 10
LANDING_ALTITUDE_THRESHOLD == 20
ALTITUDE_SAMPLE_RATE == 20
RC_OVERRIDE_REFRESH_RATE == 100
STATUS_UPDATE_RATE == 200

(***************************************************************************)
(* Constants of AltitudeFilter: accelerations in 0.1 m/s^2, times in ms,   *)
(* velocities in mm/s, weights in percent                                  *)
(***************************************************************************)
GRAVITY == 98
STATIONARY_BAND == 5
STATIONARY_READINGS == 3
DRIFT_WEIGHT == 95
DT_LIMIT == 1000
VELOCITY_LIMIT == 5000
VELOCITY_WEIGHT == 80
ALTITUDE_WEIGHT == 90

(* autonomous_flight.py: millimetres, mm/s; durations in sends of 0.1 s *)
CLIMB_RATE == 300
DESCENT_RATE == 200
NED_ALTITUDE_TOLERANCE == 50
TARGET_ALTITUDE == 500
HOVER_DURATION == 50
GOTO_DURATION == 300
HOVER_BAND == 50
HOVER_RATE == 100
LAND_DURATION == 100
LAND_DESCENT_RATE == 100
LANDED_ALTITUDE == 30
LANDED_READINGS == 5

(***************************************************************************)
(* Constants of drone_scripts/stream_altitude.py                           *)
(***************************************************************************)
INIT_TRIES == 30
INIT_READINGS == 5
LOST_AFTER == 10

(***************************************************************************)
(* Constants of drone_scripts/interactive_throttle.py: percentages in      *)
(* steps of 0.5 %, velocities in cm/s, times in ms                         *)
(***************************************************************************)
START_PERCENT == 116
STEP == 1
MIN_PERCENT == 0
MAX_PERCENT == 200
KP_ROLL == 40
KP_PITCH == 40
MAX_CORRECTION == 200
REFRESH_AFTER == 100
SELECT_TIMEOUT == 10
LOOP_SLEEP == 20

VARIABLES
    prog,               \* which script this behaviour runs
    ver,                \* start_flight.py (1) or start_flight_v2.py (2)
    pc,                 \* position of the main and of the watchdog thread
    sleep,              \* ticks left of the thread's current time.sleep
    proc,               \* "running", or how the process ended
    vehicle,            \* the global vehicle is not None
    armedFor,           \* time.time() - script_start_time; None while
                        \* script_start_time is None
    faults,             \* sends that raised so far
    closed,             \* vehicle.close() was called
    ekf_ok,             \* vehicle.ekf_ok
    fcArmed,            \* the flight controller's armed flag (vehicle.armed)
    fcCmd,              \* last arm/disarm command the controller received
    rc3,                \* throttle override at the controller, 0 = released
    overrides3,         \* vehicle.channels.overrides['3'], 0 = no such key
    timeout,            \* arm_vehicle: timeout, ticks left
    ekf_timeout,        \* arm_vehicle (v2): ekf_timeout, seconds left
    elapsed,            \* hover: elapsed, ticks
    current,            \* land: current
    inSignal,           \* the main thread runs emergency_stop
    armResult,          \* "none", "ok", "fail": what arm_vehicle returned
    wdCheck,            \* the watchdog's last check: elapsed time and verdict
    clearCalls,         \* calls that clear the RC overrides, made so far
    disarmCalls,        \* disarm commands issued so far, per thread
    report,             \* what main printed last: "none", "arm_failed",
                        \* "success" or "error"
    fkRuns,             \* "force_kill": calls of force_kill_motors completed
    fkSnap,             \* "force_kill": the vehicle after the first call
    target_altitude,    \* "aac": target_altitude, cm
    home_altitude,      \* "aac": home_altitude, cm
    current_throttle,   \* "aac": current_throttle
    channel3,           \* "aac": rc_channels[2], the throttle of the list
                        \* that set_rc_override sends; 0 before the list exists
    current_mode,       \* "aac": current_mode
    overrideAge,        \* "aac": time since the last set_rc_override, ms
                        \* (current_time - last_override_time in the main
                        \* loop)
    stdin,              \* "aac": keys pressed and not yet read
    keys,               \* "aac": keys pressed so far
    phase,              \* "aac": the flight phase the script is in
    phaseLog,           \* "aac": the phases entered, in order, while scen
    scen,               \* "aac": so far the flight climbed to the target band,
                        \* held it, and was landed by X from the hold
    sample,             \* "aac": relative_alt of this iteration, or None
    prevMode,           \* "aac": current_mode before this iteration
    landing_raw,        \* "aac": raw_alt of this pass of the landing loop,
                        \* or None
    zSeen,              \* "aac": where the script was when Z was first
                        \* pressed in flight, or "none"
    filt,               \* "filter": the AltitudeFilter object; altitudes in
                        \* mm, last_update kept as its age in ms at the
                        \* latest call
    samples,            \* "filter": update calls with an altitude so far
    gap,                \* "filter": update calls without one since the last
    first,              \* "filter": the first altitude ever passed, or None
    last,               \* "filter": the latest call: its raw_altitude, what
                        \* it returned, and the gap before it
    shadow,             \* "filter": a second AltitudeFilter, given the same
                        \* calls at the same times except the outlier
    outlier,            \* "filter": "none" until one sample with
                        \* |raw_velocity| >= 5 m/s was fed; then "fed",
                        \* "followed" once ordinary samples came after it,
                        \* or "void" once one of them was an outlier for
                        \* either filter
    setpoint,           \* "ned": the last NED velocity sent, mm/s, or <<>>
    current_alt,        \* "ned": current_alt, mm
    stationary_count,   \* "ned": altitude_filter.stationary_count
    loop_time,          \* "ned": time.time() minus the running loop's start
                        \* time, in sends of 0.1 s
    leg,                \* "ned": which call of goto_altitude_ned runs or ran
                        \* last: "none", "climb", "descent"
    success,            \* "ned": success, what the last call of
                        \* goto_altitude_ned returned, or "none"
    fcMode,             \* "ned": the flight mode last set
    stages,             \* "ned": the parts of the flight entered, in order
    consecutive_errors, \* "stream": consecutive_errors
    init_i,             \* "stream": passes of the initialisation loop done
    init_count,         \* "stream": init_count
    estimate,           \* "stream": altitude_filter.altitude, mm
    emitted,            \* "stream": the JSON line printed last
    exc,                \* "stream": the exception on its way to the outer
                        \* handler, or "none"
    noAlt,              \* "stream": streaming ticks in a row, up to now, that
                        \* got no altitude
    lastTick,           \* "stream": the latest streaming tick: its raw_alt
                        \* and whether its output raised
    current_percent,    \* "throttle": current_percent, in steps of 0.5 %
    rc_channels,        \* "throttle": rc_channels[0..2]
    rcSent,             \* "throttle": channels 1..3 of the last override the
                        \* controller received, <<0, 0, 0>> = released
    last_override,      \* "throttle": time.time() - last_override_time, ms
    ssh_connected,      \* "backend": ConnectionService._ssh_connected
    wifi_fail_count,    \* "backend": ConnectionService._wifi_fail_count
    session_fails,      \* "backend": failed WiFi checks in a row that
                        \* get_connection_status saw in the present SSH session
    lastCall,           \* "backend": the call made last: its name, the WiFi
                        \* check it made, whether it succeeded, whether it
                        \* dropped the SSH session
    flights,            \* "backend": the status column of the flights
                        \* table, by flight_id
    current_flight_id,  \* "backend": DroneRepository._current_flight_id
    detection_process   \* "backend": DetectionService._detection_process
                        \* is not None

sfVars == <<ver, pc, sleep, proc, vehicle, armedFor, faults, closed, ekf_ok,
            fcArmed, fcCmd, rc3, overrides3, timeout, ekf_timeout, elapsed,
            current, inSignal, armResult, wdCheck, clearCalls,
            disarmCalls, report, fkRuns, fkSnap>>

\* the variables of autonomous_altitude_control but rc_channels[2]
aacRest == <<target_altitude, home_altitude, current_throttle, current_mode,
             overrideAge, stdin, keys, phase, phaseLog, scen, sample, prevMode,
             landing_raw, zSeen>>

aacVars == <<target_altitude, home_altitude, current_throttle, channel3, current_mode,
             overrideAge, stdin, keys, phase, phaseLog, scen, sample, prevMode,
             landing_raw, zSeen>>

afVars == <<filt, samples, gap, first, last, shadow, outlier>>

nedVars == <<setpoint, current_alt, stationary_count, loop_time, leg, success,
             fcMode, stages>>

\* the variables of the scripts other than start_flight,
\* autonomous_altitude_control and the filter on its own
streamVars == <<consecutive_errors, init_i, init_count, estimate, emitted, exc, noAlt,
                lastTick>>

itVars == <<current_percent, rc_channels, rcSent, last_override>>

beVars == <<ssh_connected, wifi_fail_count, session_fails, lastCall, flights,
            current_flight_id, detection_process>>

laterVars == <<nedVars, streamVars, itVars, beVars>>

vars == <<prog, sfVars, aacVars, afVars, laterVars>>

Threads == {"main", "wd"}

\* a new AltitudeFilter: __init__
NewFilter ==
    [altitude |-> 0, velocity |-> 0, last_update |-> None, stationary_count |-> 0,
     home_altitude |-> None, last_raw_alt |-> None]

\* the variables of autonomous_flight.py while another program runs
NedOff ==
    /\ setpoint = <<>>
    /\ current_alt = 0
    /\ stationary_count = 0
    /\ loop_time = 0
    /\ leg = "none"
    /\ success = "none"
    /\ fcMode = "OTHER"
    /\ stages = <<>>

\* the variables of the later scripts while another program runs
\* the variables of stream_altitude.py while another program runs
StreamOff ==
    /\ consecutive_errors = 0
    /\ init_i = 0
    /\ init_count = 0
    /\ estimate = 0
    /\ emitted = [kind |-> "none", altitude |-> 0, raw |-> None, error |-> ""]
    /\ exc = "none"
    /\ noAlt = 0
    /\ lastTick = [raw |-> None, raised |-> FALSE]

\* the variables of interactive_throttle.py while another program runs
ItOff ==
    /\ current_percent = 0
    /\ rc_channels = <<>>
    /\ rcSent = <<>>
    /\ last_override = 0

\* the variables of the backend services while a script runs
BeOff ==
    /\ ssh_connected = FALSE
    /\ wifi_fail_count = 0
    /\ session_fails = 0
    /\ lastCall = [op |-> "none", wifi |-> FALSE, success |-> FALSE,
                   dropped |-> FALSE]
    /\ flights = <<>>
    /\ current_flight_id = None
    /\ detection_process = FALSE

LaterOff == NedOff /\ StreamOff /\ ItOff /\ BeOff

\* the variables of the filter while another program runs
FilterOff ==
    /\ filt = NewFilter
    /\ samples = 0
    /\ gap = 0
    /\ first = None
    /\ last = [raw |-> None, ret |-> 0, gapBefore |-> 0, out |-> FALSE, vel |-> 0]
    /\ shadow = NewFilter
    /\ outlier = "none"

\* the variables of autonomous_altitude_control.py while another program runs
AacOff ==
    /\ FilterOff
    /\ target_altitude = 0
    /\ home_altitude = 0
    /\ current_throttle = 0
    /\ channel3 = 0
    /\ current_mode = ""
    /\ overrideAge = 0
    /\ stdin = <<>>
    /\ keys = 0
    /\ phase = "IDLE"
    /\ phaseLog = <<>>
    /\ scen = FALSE
    /\ sample = None
    /\ prevMode = ""
    /\ landing_raw = None
    /\ zSeen = "none"

(***************************************************************************)
(* start_flight.py / start_flight_v2.py                                    *)
(***************************************************************************)
InitSF ==
    /\ LaterOff
    /\ AacOff
    /\ prog = "start_flight"
    /\ ver \in {1, 2}
    /\ pc = [main |-> "start", wd |-> "off"]
    /\ sleep = [main |-> 0, wd |-> 0]
    /\ proc = "running"
    /\ vehicle = FALSE
    /\ armedFor = None
    /\ faults = 0
    /\ closed = FALSE
    /\ ekf_ok \in (IF ver = 1 THEN {TRUE} ELSE BOOLEAN)
    /\ fcArmed = FALSE
    /\ fcCmd = "none"
    /\ rc3 = 0
    /\ overrides3 = 0
    /\ timeout = 0
    /\ ekf_timeout = 0
    /\ elapsed = 0
    /\ current = 0
    /\ inSignal = FALSE
    /\ armResult = "none"
    /\ wdCheck = [elapsed |-> None, fired |-> FALSE]
    /\ clearCalls = 0
    /\ disarmCalls = [main |-> 0, wd |-> 0]
    /\ report = "none"
    /\ fkRuns = 0
    /\ fkSnap = <<>>

Running == proc = "running"

\* thread t is at p and its sleep is over
At(t, p) == Running /\ pc[t] = p /\ sleep[t] = 0

\* thread t continues at p after sleeping d ticks
Go(t, p, d) ==
    /\ pc' = [pc EXCEPT ![t] = p]
    /\ sleep' = [sleep EXCEPT ![t] = d]

\* what no step of start_flight changes
cfgVars == <<prog, ver, aacVars, afVars, laterVars>>
fcVars == <<fcArmed, fcCmd, rc3, overrides3>>
locVars == <<timeout, ekf_timeout, elapsed, current>>
sigVars == <<inSignal>>
callVars == <<clearCalls, disarmCalls>>
fkhVars == <<fkRuns, fkSnap>>
\* what a step of the flight plan that sends nothing leaves alone
quietVars == <<cfgVars, proc, vehicle, faults, closed, ekf_ok, fcVars, sigVars,
               wdCheck, callVars, fkhVars>>
\* what a step that sends leaves alone (Send sets fcVars, callVars, faults, pc
\* and sleep)
sendVars == <<cfgVars, proc, vehicle, closed, ekf_ok, sigVars, wdCheck, fkhVars>>

(* The wire primitives, as effects on the vehicle; ok says that the message *)
(* went out.  "set": vehicle.channels.overrides['3'] = v stores v in        *)
(* dronekit's dictionary and sends the 8 overrides.  "raw_set": the raw     *)
(* rc_channels_override_send with throttle v.  "raw_clear": the raw         *)
(* rc_channels_override_send of zeros releases the overrides at the         *)
(* controller and leaves the dictionary alone.  "clear": overrides = {}     *)
(* empties the dictionary and sends zeros.  A "disarm" ("arm") command is   *)
(* taken up by the controller in FcDisarm (FcArm), if ever.                 *)
Apply(op, v, ok) ==
    /\ overrides3' = CASE op = "set" -> v
                       [] op = "clear" -> 0
                       [] OTHER -> overrides3
    /\ rc3' = CASE ok /\ op \in {"set", "raw_set"} -> v
                [] ok /\ op \in {"clear", "raw_clear"} -> 0
                [] OTHER -> rc3
    /\ fcCmd' = CASE ok /\ op = "disarm" /\ fcArmed -> "disarm"
                  [] ok /\ op = "arm" /\ ~fcArmed -> "arm"
                  [] OTHER -> fcCmd
    /\ UNCHANGED fcArmed

\* thread t makes one send, which goes out or raises; after a raise t
\* continues at excPc.  On a closed vehicle every send raises.
Send(t, op, v, okPc, okSleep, excPc) ==
    /\ clearCalls' = IF op \in {"clear", "raw_clear"} THEN clearCalls + 1
                     ELSE clearCalls
    /\ disarmCalls' = IF op = "disarm"
                      THEN [disarmCalls EXCEPT ![t] = @ + 1] ELSE disarmCalls
    /\ \/ /\ ~closed
          /\ Apply(op, v, TRUE)
          /\ Go(t, okPc, okSleep)
          /\ UNCHANGED faults
       \/ /\ closed \/ faults < MaxFaults
          /\ Apply(op, v, FALSE)
          /\ Go(t, excPc, 0)
          /\ faults' = IF closed THEN faults ELSE faults + 1

\* the locals of a frame that is left for good
DropLocals == timeout' = 0 /\ ekf_timeout' = 0 /\ elapsed' = 0 /\ current' = 0

\* a watchdog that fires only after the limit is passed
WatchdogExpiredLate(e) == e # None /\ e > MAX_FLIGHT_TIME

\* a watchdog that fires as soon as the hover time is over
WatchdogExpiredInFlight(e) == e # None /\ e >= HOVER_TIME

\* watchdog_timer's test, on e = time.time() - script_start_time
WatchdogExpired(e) == e # None /\ e >= MAX_FLIGHT_TIME

\* a main() that stamps the start time before it looks at arm_vehicle's result
StartTimeBeforeCheck(armed, t) == 0

\* main: if not arm_vehicle(): ... exit; else script_start_time = time.time().
\* The value of time.time() - script_start_time from then on, t being the old one
StartTimeAfterArm(armed, t) == IF armed THEN 0 ELSE t

(* main(), up to the end of arm_vehicle() *)
MainStart ==
    /\ At("main", "start") /\ prog = "start_flight"
    /\ \E d \in 0 .. MaxConnectDelay :
         /\ pc' = [main |-> "connect", wd |-> "wd_sleep"]
         /\ sleep' = [main |-> d, wd |-> WD_SLEEP]
    /\ UNCHANGED <<quietVars, armedFor, locVars, armResult, report>>

\* connect() returns a vehicle or raises
MainConnect ==
    /\ At("main", "connect")
    /\ \E ok \in BOOLEAN :
         /\ vehicle' = ok
         /\ IF ~ok THEN Go("main", "exc", 0) /\ UNCHANGED ekf_timeout
            ELSE IF ver = 1
                 THEN Go("main", "ekf_config", CONNECT_SLEEP) /\ UNCHANGED ekf_timeout
                 ELSE Go("main", "ekf_loop", CONNECT_SLEEP) /\ ekf_timeout' = EKF_TIMEOUT
    /\ UNCHANGED <<cfgVars, proc, faults, closed, ekf_ok, fcVars, sigVars, wdCheck,
                   callVars, fkhVars, armedFor, timeout, elapsed, current,
                   armResult, report>>

\* configure_ekf_no_gps() (v1): five param_set sends, each in its own try
MainEkfConfig ==
    /\ At("main", "ekf_config")
    /\ Go("main", "arm_send", EKF_CONFIG_SLEEP)
    /\ UNCHANGED <<quietVars, armedFor, locVars, armResult, report>>

\* arm_vehicle() (v2): wait up to 30 s for the EKF
MainEkfLoop ==
    /\ At("main", "ekf_loop")
    /\ IF ~ekf_ok /\ ekf_timeout > 0
       THEN /\ ekf_timeout' = ekf_timeout - 1
            /\ Go("main", "ekf_loop", EKF_SLEEP)
            /\ UNCHANGED armResult
       ELSE IF ~ekf_ok
            THEN /\ armResult' = "fail"
                 /\ Go("main", "arm_failed", 0)
                 /\ UNCHANGED ekf_timeout
            ELSE /\ Go("main", "arm_send", 0)
                 /\ UNCHANGED <<ekf_timeout, armResult>>
    /\ UNCHANGED <<quietVars, armedFor, timeout, elapsed, current, report>>

\* the force-arm command and vehicle.armed = True
MainArmSend ==
    /\ At("main", "arm_send")
    /\ Send("main", "arm", 0, "arm_loop", 0, "exc")
    /\ timeout' = ARM_TIMEOUT
    /\ UNCHANGED <<sendVars, armedFor, ekf_timeout, elapsed, current,
                   armResult, report>>

\* while not vehicle.armed and timeout > 0; then the result
MainArmLoop ==
    /\ At("main", "arm_loop")
    /\ IF ~fcArmed /\ timeout > 0
       THEN Go("main", "arm_retry", ARM_SLEEP) /\ UNCHANGED armResult
       ELSE IF ~fcArmed
            THEN armResult' = "fail" /\ Go("main", "arm_failed", 0)
            ELSE armResult' = "ok" /\ Go("main", "arm_ok", 0)
    /\ UNCHANGED <<quietVars, armedFor, locVars, report>>

MainArmRetry ==
    /\ At("main", "arm_retry")
    /\ timeout' = timeout - ARM_SLEEP
    /\ IF ~fcArmed
       THEN Send("main", "arm", 0, "arm_loop", 0, "exc")
       ELSE Go("main", "arm_loop", 0) /\ UNCHANGED <<fcVars, callVars, faults>>
    /\ UNCHANGED <<sendVars, armedFor, ekf_timeout, elapsed, current,
                   armResult, report>>

\* a main() that goes on to takeoff() whatever arm_vehicle returned
MainArmFailedFliesOn ==
    /\ At("main", "arm_failed")
    /\ Go("main", "takeoff_min", 0)
    /\ DropLocals
    /\ UNCHANGED <<quietVars, armedFor, armResult, report>>

\* arming failed: v1 closes the vehicle and calls sys.exit(1), v2 returns;
\* both leave through the finally block
MainArmFailed ==
    /\ At("main", "arm_failed")
    /\ report' = "arm_failed"
    /\ closed' = (ver = 1)
    /\ armedFor' = StartTimeAfterArm(FALSE, armedFor)
    /\ Go("main", "finally", 0)
    /\ DropLocals
    /\ UNCHANGED <<cfgVars, proc, vehicle, faults, ekf_ok, fcVars, sigVars, wdCheck,
                   callVars, fkhVars, armResult>>

MainArmOk ==
    /\ At("main", "arm_ok")
    /\ armedFor' = StartTimeAfterArm(TRUE, armedFor)
    /\ Go("main", "takeoff_min", 0)
    /\ DropLocals
    /\ UNCHANGED <<quietVars, armResult, report>>

(* takeoff(), hover(), land(), disarm() *)
MainTakeoffMin ==
    /\ At("main", "takeoff_min")
    /\ Send("main", "set", RC_MIN, "takeoff_ramp", 0, "exc")
    /\ current' = RC_MID
    /\ UNCHANGED <<sendVars, armedFor, timeout, ekf_timeout, elapsed,
                   armResult, report>>

\* for throttle in range(RC_MID, TAKEOFF_THROTTLE + 1, 2), then HOVER_THROTTLE
MainTakeoffRamp ==
    /\ At("main", "takeoff_ramp")
    /\ IF current < TAKEOFF_THROTTLE + 1
       THEN /\ Send("main", "set", current, "takeoff_ramp", 0, "exc")
            /\ current' = current + TAKEOFF_STEP
            /\ UNCHANGED elapsed
       ELSE /\ Send("main", "set", HOVER_THROTTLE, "hover", 0, "exc")
            /\ elapsed' = 0
            /\ UNCHANGED current
    /\ UNCHANGED <<sendVars, armedFor, timeout, ekf_timeout, armResult,
                   report>>

\* while elapsed < duration: sleep 0.5
MainHover ==
    /\ At("main", "hover")
    /\ IF elapsed < HOVER_TIME
       THEN /\ elapsed' = elapsed + HOVER_SLEEP
            /\ Go("main", "hover", HOVER_SLEEP)
            /\ UNCHANGED current
       ELSE /\ current' = HOVER_THROTTLE
            /\ Go("main", "land", 0)
            /\ elapsed' = 0
    /\ UNCHANGED <<quietVars, armedFor, timeout, ekf_timeout, armResult,
                   report>>

\* while current > LAND_THROTTLE: current -= 5, set, sleep 0.05; then sleep 5
MainLand ==
    /\ At("main", "land")
    /\ IF current > LAND_THROTTLE
       THEN /\ current' = current - LAND_STEP
            /\ Send("main", "set", current - LAND_STEP, "land",
                    LAND_STEP_SLEEP, "exc")
       ELSE /\ Go("main", "land_cut", LAND_HOLD)
            /\ current' = 0
            /\ UNCHANGED <<fcVars, callVars, faults>>
    /\ UNCHANGED <<sendVars, armedFor, timeout, ekf_timeout, elapsed,
                   armResult, report>>

\* set_rc_throttle(RC_MIN), sleep 1
MainLandCut ==
    /\ At("main", "land_cut")
    /\ Send("main", "set", RC_MIN, "land_clear", LAND_CUT_SLEEP, "exc")
    /\ UNCHANGED <<sendVars, armedFor, locVars, armResult, report>>

\* clear_rc_overrides()
MainLandClear ==
    /\ At("main", "land_clear")
    /\ Send("main", "raw_clear", 0, "disarm", 0, "exc")
    /\ UNCHANGED <<sendVars, armedFor, locVars, armResult, report>>

\* disarm(): arducopter_disarm()
MainDisarm ==
    /\ At("main", "disarm")
    /\ Send("main", "disarm", 0, "disarm_wait", 0, "exc")
    /\ UNCHANGED <<sendVars, armedFor, locVars, armResult, report>>

\* disarm(): motors_disarmed_wait() returns once a heartbeat says disarmed;
\* then main reports success and leaves the try block
MainDisarmWait ==
    /\ Running /\ pc["main"] = "disarm_wait"
    /\ ~fcArmed /\ ~closed
    /\ report' = "success"
    /\ Go("main", "finally", 0)
    /\ UNCHANGED <<quietVars, armedFor, locVars, armResult>>

(* except Exception: and finally: of main() *)
MainExc ==
    /\ At("main", "exc")
    /\ report' = "error"
    /\ IF vehicle
       THEN Send("main", "set", RC_MIN, "exc_clear", EXC_SLEEP, "exc_exit")
       ELSE Go("main", "exc_exit", 0) /\ UNCHANGED <<fcVars, callVars, faults>>
    /\ DropLocals
    /\ UNCHANGED <<sendVars, armedFor, armResult>>

\* vehicle.channels.overrides = {}
MainExcClear ==
    /\ At("main", "exc_clear")
    /\ Send("main", "clear", 0, "exc_disarm", 0, "exc_exit")
    /\ UNCHANGED <<sendVars, armedFor, locVars, armResult, report>>

\* vehicle.armed = False
MainExcDisarm ==
    /\ At("main", "exc_disarm")
    /\ Send("main", "disarm", 0, "exc_exit", 0, "exc_exit")
    /\ UNCHANGED <<sendVars, armedFor, locVars, armResult, report>>

\* sys.exit(1)
MainExcExit ==
    /\ At("main", "exc_exit")
    /\ Go("main", "finally", 0)
    /\ UNCHANGED <<quietVars, armedFor, locVars, armResult, report>>

\* finally: if vehicle: force_kill_motors(); vehicle.close()
MainFinally ==
    /\ At("main", "finally")
    /\ IF vehicle
       THEN Go("main", "fk_enter", 0) /\ UNCHANGED proc
       ELSE proc' = "exited_main" /\ UNCHANGED <<pc, sleep>>
    /\ UNCHANGED <<cfgVars, vehicle, faults, closed, ekf_ok, fcVars, sigVars, wdCheck,
                   callVars, fkhVars, armedFor, locVars, armResult, report>>

(* force_kill_motors(), run by thread t.  In start_flight.py one try block  *)
(* holds the whole body; in start_flight_v2.py each step has its own.       *)
flightVars == <<armedFor, locVars, armResult, report>>

FkEnter(t) ==
    /\ At(t, "fk_enter")
    /\ Go(t, IF ~vehicle THEN "fk_exit" ELSE IF ver = 1 THEN "fk_min" ELSE "fk2_clear", 0)
    /\ UNCHANGED <<quietVars, flightVars>>

\* v1: vehicle.channels.overrides['3'] = 1000, sleep 0.2
FkMin(t) ==
    /\ At(t, "fk_min")
    /\ Send(t, "set", RC_MIN, "fk_clear", FK_SLEEP, "fk_exit")
    /\ UNCHANGED <<sendVars, flightVars>>

\* a force_kill_motors that leaves out the raw send of zeros
FkClearLeftOut(t) ==
    /\ At(t, "fk_clear")
    /\ Go(t, "fk_disarm", FK_SLEEP)
    /\ UNCHANGED <<quietVars, flightVars>>

\* v1: rc_channels_override_send(0, ..., 0), sleep 0.2
FkClear(t) ==
    /\ At(t, "fk_clear")
    /\ Send(t, "raw_clear", 0, "fk_disarm", FK_SLEEP, "fk_exit")
    /\ UNCHANGED <<sendVars, flightVars>>

\* v1: arducopter_disarm()
FkDisarm(t) ==
    /\ At(t, "fk_disarm")
    /\ Send(t, "disarm", 0, "fk_wait", 0, "fk_exit")
    /\ UNCHANGED <<sendVars, flightVars>>

\* v1: motors_disarmed_wait() returns once a heartbeat says disarmed
FkWait(t) ==
    /\ Running /\ pc[t] = "fk_wait"
    /\ ~fcArmed /\ ~closed
    /\ Go(t, "fk_exit", 0)
    /\ UNCHANGED <<quietVars, flightVars>>

\* v2: vehicle.channels.overrides = {}
Fk2Clear(t) ==
    /\ At(t, "fk2_clear")
    /\ Send(t, "clear", 0, "fk2_cmd", 0, "fk2_cmd")
    /\ UNCHANGED <<sendVars, flightVars>>

\* v2: command_long_send(MAV_CMD_COMPONENT_ARM_DISARM, 0, 21196)
Fk2Cmd(t) ==
    /\ At(t, "fk2_cmd")
    /\ Send(t, "disarm", 0, "fk2_armed", 0, "fk2_armed")
    /\ UNCHANGED <<sendVars, flightVars>>

\* v2: vehicle.armed = False
Fk2Armed(t) ==
    /\ At(t, "fk2_armed")
    /\ Send(t, "disarm", 0, "fk_exit", 0, "fk_exit")
    /\ UNCHANGED <<sendVars, flightVars>>

ForceKill(t) ==
    \/ FkEnter(t) \/ FkMin(t) \/ FkClear(t) \/ FkDisarm(t) \/ FkWait(t)
    \/ Fk2Clear(t) \/ Fk2Cmd(t) \/ Fk2Armed(t)

exitVars == <<cfgVars, pc, sleep, vehicle, faults, closed, ekf_ok, fcVars, sigVars,
              wdCheck, callVars, fkhVars, flightVars>>

\* finally: vehicle.close(); main returns and the process ends
MainExit ==
    /\ At("main", "fk_exit") /\ prog = "start_flight" /\ ~inSignal
    /\ proc' = "exited_main"
    /\ UNCHANGED exitVars

\* emergency_stop after force_kill_motors(): vehicle.close(), os._exit(0)
SigExit ==
    /\ At("main", "fk_exit") /\ prog = "start_flight" /\ inSignal
    /\ proc' = "exited_sig"
    /\ UNCHANGED exitVars

\* watchdog_timer after force_kill_motors(): os._exit(0)
WdExit ==
    /\ At("wd", "fk_exit")
    /\ proc' = "exited_wd"
    /\ UNCHANGED exitVars

\* watchdog_timer: sleep 0.5, then the check
WdCheck ==
    /\ At("wd", "wd_sleep")
    /\ wdCheck' = [elapsed |-> armedFor, fired |-> WatchdogExpired(armedFor)]
    /\ IF WatchdogExpired(armedFor)
       THEN Go("wd", "fk_enter", 0)
       ELSE Go("wd", "wd_sleep", WD_SLEEP)
    /\ UNCHANGED <<cfgVars, proc, vehicle, faults, closed, ekf_ok, fcVars, sigVars,
                   callVars, fkhVars, flightVars>>

\* SIGINT or SIGTERM: the main thread enters emergency_stop wherever it is
Signal ==
    /\ Running /\ prog = "start_flight"
    /\ ~inSignal
    /\ inSignal' = TRUE
    /\ Go("main", "fk_enter", 0)
    /\ DropLocals
    /\ UNCHANGED <<cfgVars, proc, vehicle, faults, closed, ekf_ok, fcVars, wdCheck,
                   callVars, fkhVars, armedFor, armResult, report>>

(* The environment: the flight controller and the link *)
envVars == <<cfgVars, pc, sleep, proc, vehicle, sigVars, wdCheck, callVars,
             fkhVars, flightVars>>

\* the controller takes up a pending arm command
FcArm ==
    /\ Running /\ prog = "start_flight"
    /\ fcCmd = "arm" /\ ~fcArmed
    /\ pc["main"] \in {"arm_loop", "arm_retry"}
    /\ timeout >= ARM_TIMEOUT - MaxArmLate * ARM_SLEEP
    /\ fcArmed' = TRUE /\ fcCmd' = "none"
    /\ UNCHANGED <<envVars, faults, closed, ekf_ok, rc3, overrides3>>

\* the controller takes up a pending disarm command
FcDisarm ==
    /\ Running
    /\ fcCmd = "disarm" /\ fcArmed
    /\ fcArmed' = FALSE /\ fcCmd' = "none"
    /\ UNCHANGED <<envVars, faults, closed, ekf_ok, rc3, overrides3>>

\* the EKF converges while v2 waits for it
EkfConverge ==
    /\ Running /\ prog = "start_flight"
    /\ pc["main"] = "ekf_loop" /\ ~ekf_ok
    /\ ekf_timeout >= EKF_TIMEOUT - MaxEkfLate
    /\ ekf_ok' = TRUE
    /\ UNCHANGED <<envVars, faults, closed, fcVars>>

\* a thread that waits for the controller, not for the clock
Blocked(t) ==
    \/ pc[t] \in {"off", "done"}
    \/ pc[t] \in {"disarm_wait", "fk_wait"} /\ (fcArmed \/ closed)

\* time passes while every thread sleeps or is blocked, and one at least sleeps
Tick ==
    /\ Running
    /\ \A t \in Threads : Blocked(t) \/ sleep[t] > 0
    /\ \E t \in Threads : ~Blocked(t) /\ sleep[t] > 0
    /\ sleep' = [t \in Threads |-> IF sleep[t] > 0 THEN sleep[t] - 1 ELSE 0]
    /\ armedFor' = IF armedFor = None THEN None ELSE armedFor + 1
    /\ UNCHANGED <<cfgVars, pc, proc, vehicle, faults, closed, ekf_ok, fcVars, sigVars,
                   wdCheck, callVars, fkhVars, locVars, armResult, report>>

NextSF ==
    \/ MainStart \/ MainConnect \/ MainEkfConfig \/ MainEkfLoop \/ MainArmSend
    \/ MainArmLoop \/ MainArmRetry \/ MainArmFailed \/ MainArmOk
    \/ MainTakeoffMin \/ MainTakeoffRamp \/ MainHover \/ MainLand \/ MainLandCut
    \/ MainLandClear \/ MainDisarm \/ MainDisarmWait
    \/ MainExc \/ MainExcClear \/ MainExcDisarm \/ MainExcExit \/ MainFinally
    \/ ForceKill("main") \/ ForceKill("wd")
    \/ MainExit \/ SigExit \/ WdExit \/ WdCheck \/ Signal
    \/ FcArm \/ FcDisarm \/ EkfConverge \/ Tick

SpecSF == InitSF /\ [][NextSF]_vars

(***************************************************************************)
(* Properties of start_flight                                              *)
(***************************************************************************)
\* positions inside force_kill_motors
FkPcs == {"fk_enter", "fk_min", "fk_clear", "fk_disarm", "fk_wait",
          "fk2_clear", "fk2_cmd", "fk2_armed", "fk_exit"}

\* C1: a watchdog check made with now - script_start_time >= 10 s (200 ticks;
\* 10.1 s = 202 ticks) sends the watchdog thread into force_kill_motors, after
\* which its only step is os._exit; a check made with less (9.9 s = 198 ticks)
\* sends it back to sleep.
C1_WatchdogThreshold ==
    /\ wdCheck.elapsed # None =>
          (wdCheck.fired <=> wdCheck.elapsed >= MAX_FLIGHT_TIME)
    /\ wdCheck.fired => pc["wd"] \in FkPcs
    /\ ~wdCheck.fired => pc["wd"] \in {"off", "wd_sleep"} /\ proc # "exited_wd"
    /\ wdCheck.elapsed = 202 => wdCheck.fired
    /\ wdCheck.elapsed = 198 => ~wdCheck.fired

\* C1 witness: a check at 10.1 s fired and the watchdog ended the process
C1_Witness ==
    wdCheck.elapsed = 202 /\ wdCheck.fired /\ proc = "exited_wd"

\* C1 witness of the other side: a check at 9.9 s, the watchdog asleep again
C1_WitnessBelow ==
    wdCheck.elapsed = 198 /\ ~wdCheck.fired /\ pc["wd"] = "wd_sleep"

\* C2: the watchdog never fires while script_start_time is unset; it is set
\* only after arm_vehicle() returned success; after a failed arming it stays
\* unset, so the watchdog never fires in that run.
C2_CountdownStartsAtArm ==
    /\ armedFor = None =>
          ~wdCheck.fired /\ pc["wd"] \in {"off", "wd_sleep"} /\ proc # "exited_wd"
    /\ armedFor # None => armResult = "ok"
    /\ armResult = "fail" => armedFor = None /\ wdCheck.elapsed = None

\* C2 witness: arming failed after the watchdog ran through the whole arm
\* timeout, and the run ended in main without the watchdog firing
C2_Witness ==
    /\ armResult = "fail" /\ report = "arm_failed" /\ proc = "exited_main"
    /\ armedFor = None /\ ~wdCheck.fired

\* C3: once script_start_time is set, the process has ended by
\* MAX_FLIGHT_TIME plus one watchdog period, whatever main does and whether or
\* not the flight controller acknowledges.
C3_WatchdogDeadline ==
    (armedFor # None /\ armedFor > MAX_FLIGHT_TIME + WD_SLEEP) => proc # "running"

\* C3: the watchdog in motors_disarmed_wait() past the deadline, the
\* controller still armed
C3_Stuck ==
    /\ proc = "running" /\ pc["wd"] = "fk_wait" /\ fcArmed
    /\ armedFor > MAX_FLIGHT_TIME + WD_SLEEP

\* the steps of the script itself: everything but the signal, the flight
\* controller and the EKF
ProgSF ==
    \/ MainStart \/ MainConnect \/ MainEkfConfig \/ MainEkfLoop \/ MainArmSend
    \/ MainArmLoop \/ MainArmRetry \/ MainArmFailed \/ MainArmOk
    \/ MainTakeoffMin \/ MainTakeoffRamp \/ MainHover \/ MainLand \/ MainLandCut
    \/ MainLandClear \/ MainDisarm \/ MainDisarmWait
    \/ MainExc \/ MainExcClear \/ MainExcDisarm \/ MainExcExit \/ MainFinally
    \/ ForceKill("main") \/ ForceKill("wd")
    \/ MainExit \/ SigExit \/ WdExit \/ WdCheck \/ Tick

\* the threads run and time passes; the signal, the flight controller and the
\* EKF are not obliged to do anything
SpecSFRun == SpecSF /\ WF_vars(ProgSF)

\* C21: a SIGINT/SIGTERM runs force_kill_motors in the main thread before
\* anything else of the flight plan, no throttle of the interrupted step is
\* sent after the handler started, and the process ends.
C21_AbortEnds ==
    /\ [][inSignal => /\ pc'["main"] \in FkPcs
                      /\ rc3' \in {rc3, 0, RC_MIN}
                      /\ overrides3' \in {overrides3, 0, RC_MIN}]_vars
    /\ (prog = "start_flight" /\ inSignal) ~> (proc # "running")

\* C21: the part that holds: the handler takes the main thread at once, from
\* then on main is inside force_kill_motors or at the exit, the only throttle
\* written is the minimum, and a run that ends ends in os._exit
C21_AbortFirst ==
    /\ [][(prog = "start_flight" /\ ~inSignal /\ inSignal') =>
            (pc'["main"] = "fk_enter" /\ rc3' = rc3 /\ overrides3' = overrides3)]_vars
    /\ [][(prog = "start_flight" /\ inSignal) =>
            /\ pc'["main"] \in FkPcs
            /\ rc3' \in {rc3, 0, RC_MIN}
            /\ overrides3' \in {overrides3, 0, RC_MIN}]_vars
    /\ []((prog = "start_flight" /\ inSignal /\ proc # "running") =>
            proc \in {"exited_sig", "exited_wd"})

\* C21: start_flight.py after a signal during the hover: the handler has sent
\* minimum throttle, the release and the disarm command, the controller never
\* reports disarmed, and main waits in motors_disarmed_wait(); the watchdog
\* has fired since and waits there as well
C21_HandlerStuck ==
    /\ prog = "start_flight" /\ ver = 1 /\ inSignal /\ proc = "running"
    /\ pc["main"] = "fk_wait" /\ pc["wd"] = "fk_wait" /\ fcArmed
    /\ rc3 = 0 /\ faults = 0

\* where main is inside takeoff(), hover(), land() or disarm()
PlanPcs == {"arm_ok", "takeoff_min", "takeoff_ramp", "hover", "land", "land_cut",
            "land_clear", "disarm", "disarm_wait"}

\* C14 as claimed: once arm_vehicle has failed, main never enters the flight
\* plan, the watchdog's countdown is never started, and no throttle override
\* other than zero is written, neither into vehicle.channels.overrides nor
\* at the flight controller.
C14_OverrideLeftAtZero ==
    armResult = "fail" =>
        /\ pc["main"] \notin PlanPcs
        /\ armedFor = None /\ ~wdCheck.fired
        /\ rc3 = 0 /\ overrides3 = 0

\* C14: once arm_vehicle has failed, main never enters the flight plan, the
\* watchdog's countdown is never started, and the only throttle override ever
\* written is the minimum RC_MIN of force_kill_motors (start_flight.py); in
\* start_flight_v2.py none is written at all.
C14_NoTakeoffAfterArmFailure ==
    armResult = "fail" =>
        /\ pc["main"] \notin PlanPcs
        /\ armedFor = None /\ ~wdCheck.fired
        /\ rc3 \in {0, RC_MIN} /\ overrides3 \in {0, RC_MIN}
        /\ ver = 2 => rc3 = 0 /\ overrides3 = 0

\* C14 witness: arming timed out, main closed the vehicle and left through
\* finally, where force_kill_motors wrote overrides['3'] = 1000
C14_Witness ==
    /\ armResult = "fail" /\ report = "arm_failed" /\ proc = "exited_main"
    /\ ver = 1 /\ closed /\ overrides3 = RC_MIN /\ rc3 = 0 /\ ~inSignal

\* C14: arming timed out and a signal came before main closed the vehicle: the
\* minimum-throttle override went out to the flight controller
C14_WitnessSent ==
    armResult = "fail" /\ ver = 1 /\ rc3 = RC_MIN

(***************************************************************************)
(* force_kill_motors() called twice in succession                          *)
(***************************************************************************)
\* the vehicle may be None, armed or not, with any throttle override; the
\* dictionary holds what was sent, or a stale value after a raw release
InitFK ==
    /\ LaterOff
    /\ AacOff
    /\ prog = "force_kill"
    /\ ver \in {1, 2}
    /\ pc = [main |-> "fk_enter", wd |-> "off"]
    /\ sleep = [main |-> 0, wd |-> 0]
    /\ proc = "running"
    /\ vehicle \in BOOLEAN
    /\ armedFor = None
    /\ faults = 0
    /\ closed = FALSE
    /\ ekf_ok = TRUE
    /\ fcArmed \in BOOLEAN
    /\ fcCmd = "none"
    /\ rc3 \in {0, RC_MIN, HOVER_THROTTLE}
    /\ overrides3 \in {0, RC_MIN, HOVER_THROTTLE}
    /\ rc3 = overrides3 \/ rc3 = 0
    /\ timeout = 0
    /\ ekf_timeout = 0
    /\ elapsed = 0
    /\ current = 0
    /\ inSignal = FALSE
    /\ armResult = "none"
    /\ wdCheck = [elapsed |-> None, fired |-> FALSE]
    /\ clearCalls = 0
    /\ disarmCalls = [main |-> 0, wd |-> 0]
    /\ report = "none"
    /\ fkRuns = 0
    /\ fkSnap = <<>>

\* the vehicle as force_kill_motors leaves it: the override at the controller,
\* dronekit's dictionary entry, and whether the controller stays armed once it
\* has taken up what it was sent
Terminal == <<rc3, overrides3, fcArmed /\ fcCmd # "disarm">>

\* force_kill_motors() returns; the first return is followed by the second call
FkReturn ==
    /\ At("main", "fk_exit") /\ prog = "force_kill"
    /\ fkRuns' = fkRuns + 1
    /\ fkSnap' = IF fkRuns = 0 THEN Terminal ELSE fkSnap
    /\ Go("main", IF fkRuns = 0 THEN "fk_enter" ELSE "done", 0)
    /\ UNCHANGED <<cfgVars, proc, vehicle, faults, closed, ekf_ok, fcVars, sigVars,
                   wdCheck, callVars, flightVars>>

NextFK == ForceKill("main") \/ FkReturn \/ FcDisarm \/ Tick

SpecFK == InitFK /\ [][NextFK]_vars

\* C6: when force_kill_motors has run twice in succession and no send raised,
\* the vehicle (override at the controller, dictionary entry, armed flag once
\* the controller has taken up the commands) is as the first run left it, and
\* for a vehicle that is not None the override is released and the controller
\* is disarmed or holds the disarm command; start_flight.py returns only once
\* the controller is disarmed.
C6_ForceKillIdempotent ==
    (prog = "force_kill" /\ fkRuns = 2 /\ faults = 0) =>
        /\ Terminal = fkSnap
        /\ vehicle => rc3 = 0 /\ ~Terminal[3]
        /\ (vehicle /\ ver = 1) => ~fcArmed

\* C6 witness: two runs on an armed vehicle with the throttle override set
C6_Witness ==
    /\ prog = "force_kill" /\ fkRuns = 2 /\ faults = 0 /\ vehicle
    /\ disarmCalls["main"] >= 2 /\ clearCalls = 2
    /\ fkSnap = <<0, RC_MIN, FALSE>> /\ Terminal = fkSnap

(***************************************************************************)
(* drone_scripts/autonomous_altitude_control.py: autonomous_flight()       *)
(* The script is one thread; its sleeps only pace it, so the model counts  *)
(* time in the main loop alone (overrideAge).                              *)
(***************************************************************************)
\* float(raw_input(...)), or the default
Targets == {DEFAULT_TARGET_ALTITUDE, DEFAULT_TARGET_ALTITUDE - 5}
\* establish_home_altitude(): the mean of the readings, or 0.0
Homes == {0, 200}
\* altitudes above home that LOCAL_POSITION_NED reports
RelAlts == {15, 20, 85, 90, 95, 110, 115}
RawAlts == {h + a : h \in Homes, a \in RelAlts}
Keys == {"Y", "X", "Z"}

InitAAC ==
    /\ LaterOff
    /\ FilterOff
    /\ prog = "aac"
    /\ ver = 1
    /\ pc = [main |-> "a_connect", wd |-> "off"]
    /\ sleep = [main |-> 0, wd |-> 0]
    /\ proc = "running"
    /\ vehicle = FALSE
    /\ armedFor = None
    /\ faults = 0
    /\ closed = FALSE
    /\ ekf_ok = TRUE
    /\ fcArmed = FALSE
    /\ fcCmd = "none"
    /\ rc3 = 0
    /\ overrides3 = 0
    /\ timeout = 0
    /\ ekf_timeout = 0
    /\ elapsed = 0
    /\ current = 0
    /\ inSignal = FALSE
    /\ armResult = "none"
    /\ wdCheck = [elapsed |-> None, fired |-> FALSE]
    /\ clearCalls = 0
    /\ disarmCalls = [main |-> 0, wd |-> 0]
    /\ report = "none"
    /\ fkRuns = 0
    /\ fkSnap = <<>>
    /\ target_altitude \in Targets
    /\ home_altitude = 0
    /\ current_throttle = 0
    /\ channel3 = 0
    /\ current_mode = ""
    /\ overrideAge = 0
    /\ stdin = <<>>
    /\ keys = 0
    /\ phase = "IDLE"
    /\ phaseLog = <<>>
    /\ scen = TRUE
    /\ sample = None
    /\ prevMode = ""
    /\ landing_raw = None
    /\ zSeen = "none"

\* what no step of autonomous_altitude_control.py changes
sfRest == <<prog, ver, armedFor, ekf_ok, timeout, ekf_timeout, elapsed, current,
            inSignal, wdCheck, fkRuns, fkSnap, afVars, laterVars>>
sfOnly == <<sfRest, armResult, report>>
setupVars == <<target_altitude, home_altitude>>
ctlVars == <<current_throttle, channel3, current_mode, overrideAge>>
keyVars == <<stdin, keys, zSeen>>
tickVars == <<sample, prevMode, landing_raw>>
phaseVars == <<phase, phaseLog, scen>>
\* what a step that sends nothing leaves alone, besides the script's own variables
aacQuiet == <<sfOnly, proc, vehicle, closed, faults, fcVars, callVars>>
\* the same for a step that sends
aacSend == <<sfOnly, proc, vehicle, closed>>

\* the script enters phase p; ok says that the flight is still the plain one
EnterPhase(p, ok) ==
    /\ phase' = p
    /\ scen' = ok
    /\ phaseLog' = IF ~ok THEN <<>>
                   ELSE IF p # phase THEN Append(phaseLog, p) ELSE phaseLog

\* a throttle decision that takes the upper bound of the band as above it
RequiredThrottleUpperOpen(relative_alt, target) ==
    IF relative_alt < target - ALTITUDE_TOLERANCE THEN CLIMB_PWM
    ELSE IF relative_alt >= target + ALTITUDE_TOLERANCE THEN LAND_PWM
    ELSE HOVER_PWM

\* the throttle decision of the main loop
RequiredThrottle(relative_alt, target) ==
    IF relative_alt < target - ALTITUDE_TOLERANCE THEN CLIMB_PWM
    ELSE IF relative_alt > target + ALTITUDE_TOLERANCE THEN LAND_PWM
    ELSE HOVER_PWM

\* a main loop that keeps the label of the first command
ModeKept(throttle) == "CLIMBING"

\* the mode the main loop names with a throttle
ModeOf(throttle) ==
    CASE throttle = CLIMB_PWM -> "CLIMBING"
      [] throttle = LAND_PWM -> "DESCENDING"
      [] OTHER -> "HOVERING"

\* mavlink_connection, wait_heartbeat, set_mode: an exception, an unknown
\* mode (sys.exit(1)), or on to arming
AacConnect ==
    /\ At("main", "a_connect") /\ prog = "aac"
    /\ \E r \in {"ok", "no_link", "no_heartbeat", "bad_mode"} :
         /\ vehicle' = (r # "no_link")
         /\ Go("main", CASE r = "ok" -> "a_arm"
                         [] r = "bad_mode" -> "a_finally"
                         [] OTHER -> "a_exc", 0)
    /\ UNCHANGED <<sfOnly, proc, closed, faults, fcVars, callVars, aacVars>>

\* arm_throttle: arducopter_arm()
AacArm ==
    /\ At("main", "a_arm")
    /\ Send("main", "arm", 0, "a_arm_wait", 0, "a_exc")
    /\ UNCHANGED <<aacSend, aacVars>>

\* arm_throttle: motors_armed_wait(); then establish_home_altitude()
AacArmWait ==
    /\ At("main", "a_arm_wait")
    /\ fcArmed
    /\ armResult' = "ok"
    /\ home_altitude' \in Homes
    /\ Go("main", "a_idle", 0)
    /\ EnterPhase("ARMED_IDLE", scen)
    /\ UNCHANGED <<sfRest, report, proc, vehicle, closed, faults, fcVars, callVars,
                   target_altitude, ctlVars, keyVars, tickVars>>

\* motors to minimum, armed and not spinning
AacIdle ==
    /\ At("main", "a_idle")
    /\ channel3' = THROTTLE_MIN
    /\ Send("main", "raw_set", channel3', "a_wait_y", 0, "a_exc")
    /\ UNCHANGED <<aacSend, aacRest>>

\* wait_for_keypress('Y'): a key is read; any key but Y is dropped
AacWaitKey ==
    /\ At("main", "a_wait_y")
    /\ stdin # <<>>
    /\ stdin' = Tail(stdin)
    /\ Go("main", IF Head(stdin) = "Y" THEN "a_climb" ELSE "a_wait_y", 0)
    /\ UNCHANGED <<aacQuiet, setupVars, ctlVars, keys, zSeen, tickVars, phaseVars>>

\* start climbing
AacClimb ==
    /\ At("main", "a_climb")
    /\ current_throttle' = CLIMB_PWM
    /\ channel3' = current_throttle'
    /\ current_mode' = "CLIMBING"
    /\ overrideAge' = 0
    /\ Send("main", "raw_set", channel3', "a_loop", 0, "a_exc")
    /\ EnterPhase("CLIMBING", scen)
    /\ UNCHANGED <<aacSend, setupVars, keyVars, tickVars>>

\* the main loop up to the keyboard poll: the altitude sample, the throttle
\* decision with its send, and the periodic refresh
AacControl ==
    /\ At("main", "a_loop")
    /\ \E raw_alt \in RawAlts \cup {None} :
         LET relative_alt == raw_alt - home_altitude
             required_throttle == RequiredThrottle(relative_alt, target_altitude)
             update == raw_alt # None /\ required_throttle # current_throttle
             refresh == ~update /\ overrideAge >= RC_OVERRIDE_REFRESH_RATE
             plain == \/ raw_alt = None
                      \/ /\ relative_alt <= target_altitude + ALTITUDE_TOLERANCE
                         /\ ~(current_mode = "HOVERING" /\
                              relative_alt < target_altitude - ALTITUDE_TOLERANCE)
         IN  /\ sample' = IF raw_alt = None THEN None ELSE relative_alt
             /\ prevMode' = current_mode
             /\ UNCHANGED landing_raw
             /\ current_throttle' = IF update THEN required_throttle
                                    ELSE current_throttle
             /\ channel3' = IF update THEN current_throttle' ELSE channel3
             /\ current_mode' = IF update THEN ModeOf(required_throttle)
                                ELSE current_mode
             /\ overrideAge' = IF update \/ refresh THEN 0 ELSE overrideAge
             /\ IF update \/ refresh
                THEN Send("main", "raw_set", channel3', "a_poll", 0, "a_exc")
                ELSE Go("main", "a_poll", 0) /\ UNCHANGED <<faults, fcVars, callVars>>
             /\ EnterPhase(current_mode', scen /\ plain)
    /\ UNCHANGED <<aacSend, setupVars, keyVars>>

\* the keyboard poll and the sleep of the main loop
AacPoll ==
    /\ At("main", "a_poll")
    /\ sample' = None
    /\ prevMode' = ""
    /\ UNCHANGED landing_raw
    /\ overrideAge' = overrideAge + ALTITUDE_SAMPLE_RATE
    /\ IF stdin = <<>>
       THEN /\ Go("main", "a_loop", 0)
            /\ UNCHANGED <<stdin, phaseVars>>
       ELSE /\ stdin' = Tail(stdin)
            /\ CASE Head(stdin) = "X" ->
                      /\ Go("main", "a_land", 0)
                      /\ EnterPhase(phase, scen /\ current_mode = "HOVERING")
                 [] Head(stdin) = "Z" ->
                      /\ Go("main", "a_handler", 0)
                      /\ EnterPhase("EMERGENCY", FALSE)
                 [] OTHER ->
                      /\ Go("main", "a_loop", 0)
                      /\ UNCHANGED phaseVars
    /\ UNCHANGED <<aacQuiet, setupVars, current_throttle, channel3, current_mode,
                   keys, zSeen>>

\* the landing phase starts: LAND_PWM
AacLand ==
    /\ At("main", "a_land")
    /\ channel3' = LAND_PWM
    /\ Send("main", "raw_set", channel3', "a_landing", 0, "a_exc")
    /\ overrideAge' = 0
    /\ EnterPhase("DESCENDING", scen)
    /\ UNCHANGED <<aacSend, setupVars, current_throttle, current_mode, keyVars,
                   tickVars>>

\* the descent loop, one pass: near the ground the throttle goes to minimum;
\* otherwise nothing is sent and the pass ends in time.sleep(STATUS_UPDATE_RATE)
AacLanding ==
    /\ At("main", "a_landing")
    /\ \E raw_alt \in RawAlts \cup {None} :
         IF raw_alt # None /\ raw_alt - home_altitude < LANDING_ALTITUDE_THRESHOLD
         THEN /\ channel3' = THROTTLE_MIN
              /\ Send("main", "raw_set", channel3', "a_release", 0, "a_exc")
              /\ overrideAge' = 0
              /\ landing_raw' = None
              /\ EnterPhase("LANDED", scen)
         ELSE /\ Go("main", "a_landing", 0)
              /\ overrideAge' = IF overrideAge + STATUS_UPDATE_RATE < MaxSilence
                                THEN overrideAge + STATUS_UPDATE_RATE
                                ELSE MaxSilence
              /\ landing_raw' = raw_alt
              /\ UNCHANGED <<faults, fcVars, callVars, phaseVars, channel3>>
    /\ UNCHANGED <<aacSend, setupVars, current_throttle, current_mode, keyVars,
                   sample, prevMode>>

\* shutdown: release_rc_override
AacRelease ==
    /\ At("main", "a_release")
    /\ Send("main", "raw_clear", 0, "a_disarm", 0, "a_exc")
    /\ UNCHANGED <<aacSend, aacVars>>

\* shutdown: disarm_throttle: arducopter_disarm()
AacDisarm ==
    /\ At("main", "a_disarm")
    /\ Send("main", "disarm", 0, "a_disarm_wait", 0, "a_exc")
    /\ UNCHANGED <<aacSend, aacVars>>

\* shutdown: motors_disarmed_wait(), then the summary
AacDisarmWait ==
    /\ At("main", "a_disarm_wait")
    /\ ~fcArmed
    /\ report' = "success"
    /\ Go("main", "a_finally", 0)
    /\ UNCHANGED <<sfRest, armResult, proc, vehicle, closed, faults, fcVars,
                   callVars, aacVars>>

\* except Exception: the body up to its first send
AacExc ==
    /\ At("main", "a_exc")
    /\ Go("main", "a_handler", 0)
    /\ EnterPhase("ERROR", FALSE)
    /\ UNCHANGED <<aacQuiet, setupVars, ctlVars, keyVars, tickVars>>

\* except KeyboardInterrupt and except Exception: if master, minimum throttle.
\* An exception here leaves the handler; only the finally block follows
AacHandlerMin ==
    /\ At("main", "a_handler")
    /\ IF vehicle
       THEN /\ channel3' = THROTTLE_MIN
            /\ Send("main", "raw_set", channel3', "a_h_release", 0, "a_finally")
       ELSE /\ Go("main", "a_finally", 0)
            /\ UNCHANGED <<faults, fcVars, callVars, channel3>>
    /\ UNCHANGED <<aacSend, aacRest>>

\* the handlers' release_rc_override
AacHandlerRelease ==
    /\ At("main", "a_h_release")
    /\ Send("main", "raw_clear", 0, "a_h_disarm", 0, "a_finally")
    /\ UNCHANGED <<aacSend, aacVars>>

\* the handlers' try: disarm_throttle(master) except: pass
AacHandlerDisarm ==
    /\ At("main", "a_h_disarm")
    /\ Send("main", "disarm", 0, "a_h_wait", 0, "a_finally")
    /\ UNCHANGED <<aacSend, aacVars>>

AacHandlerWait ==
    /\ At("main", "a_h_wait")
    /\ ~fcArmed
    /\ Go("main", "a_finally", 0)
    /\ UNCHANGED <<aacQuiet, aacVars>>

\* a finally block that disarms once more, as start_flight's does
AacFinallyDisarms ==
    /\ At("main", "a_finally")
    /\ IF vehicle
       THEN Send("main", "disarm", 0, "a_close", 0, "a_end")
       ELSE Go("main", "a_end", 0) /\ UNCHANGED <<faults, fcVars, callVars>>
    /\ UNCHANGED <<aacSend, aacVars>>

\* finally: if master: release_rc_override; an exception skips close()
AacFinally ==
    /\ At("main", "a_finally")
    /\ IF vehicle
       THEN Send("main", "raw_clear", 0, "a_close", 0, "a_end")
       ELSE Go("main", "a_end", 0) /\ UNCHANGED <<faults, fcVars, callVars>>
    /\ UNCHANGED <<aacSend, aacVars>>

\* finally: master.close(); the script ends
AacClose ==
    /\ At("main", "a_close")
    /\ closed' = TRUE
    /\ proc' = "exited_main"
    /\ UNCHANGED <<sfOnly, pc, sleep, vehicle, faults, fcVars, callVars, aacVars>>

\* the script ends without close()
AacEnd ==
    /\ At("main", "a_end")
    /\ proc' = "exited_main"
    /\ UNCHANGED <<sfOnly, pc, sleep, vehicle, closed, faults, fcVars, callVars,
                   aacVars>>

\* where a key finds the script, if it is armed and in flight
FlightPcs == {"a_wait_y", "a_climb", "a_loop", "a_poll", "a_land", "a_landing"}

\* the operator presses a key
KeyPress ==
    /\ Running /\ prog = "aac"
    /\ keys < MaxKeys /\ Len(stdin) < MaxPending
    /\ \E k \in Keys :
         /\ stdin' = Append(stdin, k)
         /\ zSeen' = IF k = "Z" /\ zSeen = "none" /\ pc["main"] \in FlightPcs
                     THEN pc["main"] ELSE zSeen
    /\ keys' = keys + 1
    /\ UNCHANGED <<aacQuiet, pc, sleep, setupVars, ctlVars, tickVars, phaseVars>>

\* the controller takes up the arm command
AacFcArm ==
    /\ Running /\ prog = "aac"
    /\ fcCmd = "arm" /\ ~fcArmed
    /\ fcArmed' = TRUE /\ fcCmd' = "none"
    /\ UNCHANGED <<envVars, faults, closed, ekf_ok, rc3, overrides3>>

NextAAC ==
    \/ AacConnect \/ AacArm \/ AacArmWait \/ AacIdle \/ AacWaitKey \/ AacClimb
    \/ AacControl \/ AacPoll \/ AacLand \/ AacLanding \/ AacRelease \/ AacDisarm
    \/ AacDisarmWait \/ AacExc \/ AacHandlerMin \/ AacHandlerRelease
    \/ AacHandlerDisarm \/ AacHandlerWait \/ AacFinally \/ AacClose \/ AacEnd
    \/ KeyPress \/ AacFcArm \/ FcDisarm

SpecAAC == InitAAC /\ [][NextAAC]_vars

(***************************************************************************)
(* Properties of autonomous_altitude_control.py                            *)
(***************************************************************************)
\* C4: a Z pressed while the script is armed and in flight (waiting for Y, in
\* the main loop, or in the landing loop) takes it to the emergency handler:
\* a run in which no send raised and Z was pressed in flight has been through
\* EMERGENCY by the time it ends.
C4_AbortReachesEmergency ==
    (prog = "aac" /\ proc # "running" /\ zSeen # "none" /\ faults = 0)
        => phase = "EMERGENCY"

\* C4: Z pressed in the landing loop is never read: the flight ends as LANDED
C4_LostInLanding ==
    /\ prog = "aac" /\ proc = "exited_main" /\ faults = 0
    /\ zSeen = "a_landing" /\ phase = "LANDED" /\ stdin = <<"Z">>

\* C4: Z pressed while the script waits for Y is read and dropped
C4_LostWhileWaiting ==
    /\ prog = "aac" /\ proc = "exited_main" /\ faults = 0
    /\ zSeen = "a_wait_y" /\ phase = "LANDED" /\ stdin = <<>>

\* C8: after every iteration of the main loop that had an altitude sample,
\* the mode and the throttle are those of the sample alone: below
\* target - tolerance CLIMBING with CLIMB_PWM, above target + tolerance
\* DESCENDING with LAND_PWM, and from target - tolerance to target + tolerance,
\* both bounds included, HOVERING with HOVER_PWM, whatever the mode was before.
C8_PhaseFromAltitude ==
    (prog = "aac" /\ sample # None) =>
        /\ sample < target_altitude - ALTITUDE_TOLERANCE =>
               current_mode = "CLIMBING" /\ current_throttle = CLIMB_PWM
        /\ sample > target_altitude + ALTITUDE_TOLERANCE =>
               current_mode = "DESCENDING" /\ current_throttle = LAND_PWM
        /\ (/\ target_altitude - ALTITUDE_TOLERANCE <= sample
            /\ sample <= target_altitude + ALTITUDE_TOLERANCE) =>
               current_mode = "HOVERING" /\ current_throttle = HOVER_PWM
        /\ target_altitude = 100 =>
               /\ sample = 85 => current_mode = "CLIMBING"
               /\ sample \in {90, 95, 110} => current_mode = "HOVERING"
               /\ sample = 115 => current_mode = "DESCENDING"
        /\ pc["main"] = "a_poll" => phase = current_mode

\* C8 witness: a sample on the upper bound of the band, met while climbing
C8_Witness ==
    /\ prog = "aac" /\ pc["main"] = "a_poll" /\ target_altitude = 100
    /\ sample = 110 /\ prevMode = "CLIMBING" /\ current_mode = "HOVERING"
    /\ rc3 = HOVER_PWM

\* the loops that run between the first climb command and the release
RefreshPcs == {"a_loop", "a_poll", "a_landing"}

\* C19: from the first climb command until the release, the time since the
\* last RC override send never exceeds RC_OVERRIDE_REFRESH_RATE plus one
\* sampling tick, in the main loop and in the landing loop.
C19_RefreshedInTime ==
    (prog = "aac" /\ pc["main"] \in RefreshPcs) =>
        overrideAge <= RC_OVERRIDE_REFRESH_RATE + ALTITUDE_SAMPLE_RATE

\* C19: the main loop alone keeps the bound, with or without altitude samples
C19_MainLoopRefreshed ==
    (prog = "aac" /\ pc["main"] \in {"a_loop", "a_poll"}) =>
        overrideAge <= RC_OVERRIDE_REFRESH_RATE + ALTITUDE_SAMPLE_RATE

\* C19: the landing loop has slept three times since LAND_PWM was sent and
\* has sent nothing since
C19_SilentLanding ==
    /\ prog = "aac" /\ pc["main"] = "a_landing" /\ rc3 = LAND_PWM
    /\ overrideAge >= 3 * STATUS_UPDATE_RATE /\ faults = 0

(***************************************************************************)
(* Both flight scripts                                                     *)
(***************************************************************************)
InitFlights == InitSF \/ InitAAC

NextFlights == NextSF \/ NextAAC

SpecFlights == InitFlights /\ [][NextFlights]_vars

DisarmCount == disarmCalls["main"] + disarmCalls["wd"]

\* C5: whenever a run that armed has ended, the RC overrides were cleared and
\* a disarm was attempted, also when a send of the cleanup itself raised.
C5_CleanupBeforeExit ==
    (proc # "running" /\ armResult = "ok") => clearCalls > 0 /\ DisarmCount > 0

\* C5: autonomous_altitude_control.py ended after arming without a disarm
C5_AacNoDisarm ==
    /\ prog = "aac" /\ proc # "running" /\ armResult = "ok" /\ DisarmCount = 0

\* C5: start_flight.py ended after arming with neither
C5_SfNeither ==
    /\ prog = "start_flight" /\ proc # "running" /\ armResult = "ok"
    /\ clearCalls = 0 /\ DisarmCount = 0

\* a flight that ran its plan to the end with no send raising and no abort
FlightComplete ==
    /\ proc # "running" /\ report = "success" /\ faults = 0
    /\ prog = "aac" => scen
    /\ prog = "start_flight" => ~inSignal

FlightPhases == <<"ARMED_IDLE", "CLIMBING", "HOVERING", "DESCENDING", "LANDED">>

\* C7 as claimed: a complete fault-free flight went through CLIMBING,
\* HOVERING, DESCENDING, LANDED in this order and issued the disarm command
\* exactly once, the shutdown and the finally block counted together.
C7_DisarmOnce ==
    FlightComplete =>
        /\ prog = "aac" => phaseLog = FlightPhases
        /\ DisarmCount = 1

\* C7: a complete fault-free flight of autonomous_altitude_control.py went
\* through CLIMBING, HOVERING, DESCENDING, LANDED in this order and issued the
\* disarm command exactly once; a complete fault-free flight of start_flight
\* issued it once in disarm() and at least once more in force_kill_motors,
\* run by the finally block or by the watchdog (when the main thread ends the
\* process: twice in all in start_flight.py, three times in start_flight_v2.py).
C7_PhasesAndDisarm ==
    FlightComplete =>
        /\ prog = "aac" => phaseLog = FlightPhases /\ DisarmCount = 1
        /\ prog = "start_flight" => disarmCalls["main"] >= 1 /\ DisarmCount >= 2
        /\ (prog = "start_flight" /\ proc = "exited_main") =>
               disarmCalls["main"] = IF ver = 1 THEN 2 ELSE 3

\* C7 witness: a complete flight of autonomous_altitude_control.py
C7_Witness ==
    /\ FlightComplete /\ prog = "aac" /\ phaseLog = FlightPhases
    /\ DisarmCount = 1 /\ clearCalls = 2 /\ ~fcArmed /\ rc3 = 0

\* C7: a complete flight of start_flight.py that the main thread ended
C7_WitnessSF ==
    /\ FlightComplete /\ prog = "start_flight" /\ ver = 1
    /\ proc = "exited_main" /\ disarmCalls["main"] = 2

(***************************************************************************)
(* AltitudeFilter of drone_scripts/autonomous_flight.py (the same class is *)
(* in stream_altitude.py and scarecrow-drone/drone_scripts/                *)
(* altitude_monitor.py).  Altitudes are integers of millimetres and the    *)
(* weighted sums are rounded down to the millimetre.                       *)
(***************************************************************************)
\* raw altitudes passed to update, mm
RawF == {0, 1100}
\* accelerometer readings, 0.1 m/s^2: at rest, on the edge of the band, tilted
\* at rest, accelerating
Accels == {<<0, 0, 98>>, <<0, 0, 93>>, <<30, 0, 93>>, <<0, 0, 120>>}

InitFilter ==
    /\ LaterOff
    /\ AacOff
    /\ prog = "filter"
    /\ ver = 1
    /\ pc = [main |-> "off", wd |-> "off"]
    /\ sleep = [main |-> 0, wd |-> 0]
    /\ proc = "running"
    /\ vehicle = FALSE
    /\ armedFor = None
    /\ faults = 0
    /\ closed = FALSE
    /\ ekf_ok = TRUE
    /\ fcArmed = FALSE
    /\ fcCmd = "none"
    /\ rc3 = 0
    /\ overrides3 = 0
    /\ timeout = 0
    /\ ekf_timeout = 0
    /\ elapsed = 0
    /\ current = 0
    /\ inSignal = FALSE
    /\ armResult = "none"
    /\ wdCheck = [elapsed |-> None, fired |-> FALSE]
    /\ clearCalls = 0
    /\ disarmCalls = [main |-> 0, wd |-> 0]
    /\ report = "none"
    /\ fkRuns = 0
    /\ fkSnap = <<>>

Abs(x) == IF x < 0 THEN -x ELSE x

\* is_stationary: abs(sqrt(x^2 + y^2 + z^2) - 9.8) < 0.5, on the squares
is_stationary(accel) ==
    LET total2 == accel[1] * accel[1] + accel[2] * accel[2] + accel[3] * accel[3]
    IN  /\ (GRAVITY - STATIONARY_BAND) * (GRAVITY - STATIONARY_BAND) < total2
        /\ total2 < (GRAVITY + STATIONARY_BAND) * (GRAVITY + STATIONARY_BAND)

\* a test of the home altitude by truth value: 0.0 counts as unset
HomeFalsy(home) == home = None \/ home = 0

\* self.home_altitude is None
HomeUnset(home) == home = None

\* an update without an altitude that restarts the stationary run
AbsentRestartsRun(f) == [f EXCEPT !.stationary_count = 0]

\* update with raw_altitude None: return self.altitude, nothing assigned
AbsentUpdate(f) == f

\* the time from one call of update to the next passes: last_update stays and
\* its age grows, counted up to DT_LIMIT, from where on update ignores it
Aged(f) ==
    IF f.last_update = None THEN f
    ELSE [f EXCEPT !.last_update =
              IF @ + UpdatePeriod < DT_LIMIT THEN @ + UpdatePeriod ELSE DT_LIMIT]

\* a drifting estimate that jumps past the reading
DriftPast(altitude, relative_alt) == 2 * relative_alt - altitude

\* self.altitude * 0.95 + relative_alt * 0.05
Drift(altitude, relative_alt) ==
    (altitude * DRIFT_WEIGHT + relative_alt * (100 - DRIFT_WEIGHT)) \div 100

\* update(raw_altitude, accel_x, accel_y, accel_z) on the filter f, whose
\* last_update is current_time - self.last_update
Update(f, raw_altitude, accel) ==
    IF HomeUnset(f.home_altitude) /\ raw_altitude # None
    THEN [f EXCEPT !.home_altitude = raw_altitude, !.altitude = 0,
                   !.last_raw_alt = raw_altitude, !.last_update = 0]
    ELSE IF raw_altitude = None
    THEN AbsentUpdate(f)
    ELSE
      LET relative_alt == raw_altitude - f.home_altitude
          count == IF is_stationary(accel) THEN f.stationary_count + 1 ELSE 0
          dt == f.last_update
          timed == /\ f.last_update # None /\ f.last_raw_alt # None
                   /\ dt > 0 /\ dt < DT_LIMIT
          raw_velocity == ((raw_altitude - f.last_raw_alt) * 1000) \div dt
          velocity == (f.velocity * VELOCITY_WEIGHT
                       + raw_velocity * (100 - VELOCITY_WEIGHT)) \div 100
          moved == f.altitude + (velocity * dt) \div 1000
      IN  IF count >= STATIONARY_READINGS
          THEN [f EXCEPT !.stationary_count = count,
                         !.altitude = Drift(f.altitude, relative_alt),
                         !.velocity = 0,
                         !.last_raw_alt = raw_altitude, !.last_update = 0]
          ELSE IF timed /\ Abs(raw_velocity) < VELOCITY_LIMIT
          THEN [f EXCEPT !.stationary_count = count,
                         !.velocity = velocity,
                         !.altitude = (moved * ALTITUDE_WEIGHT
                                       + relative_alt * (100 - ALTITUDE_WEIGHT)) \div 100,
                         !.last_raw_alt = raw_altitude, !.last_update = 0]
          ELSE [f EXCEPT !.stationary_count = count,
                         !.last_raw_alt = raw_altitude, !.last_update = 0]

\* what update returns: 0.0 from the seeding branch, else self.altitude
Returned(f, raw_altitude, after) ==
    IF HomeUnset(f.home_altitude) /\ raw_altitude # None THEN 0 ELSE after.altitude

\* raw_velocity of update(raw_altitude, ...) on the filter f, mm/s
RawVelocity(f, raw_altitude) ==
    ((raw_altitude - f.last_raw_alt) * 1000) \div f.last_update

\* the call update(raw_altitude, ...) on f measures a velocity that the test
\* abs(raw_velocity) < 5.0 turns away
Outlier(f, raw_altitude) ==
    /\ raw_altitude # None
    /\ ~HomeUnset(f.home_altitude)
    /\ f.last_update # None /\ f.last_raw_alt # None
    /\ f.last_update > 0 /\ f.last_update < DT_LIMIT
    /\ Abs(RawVelocity(f, raw_altitude)) >= VELOCITY_LIMIT

\* one call of update, UpdatePeriod after the one before; the second filter
\* gets the same call, except that the first outlier is kept from it
FilterUpdate ==
    /\ prog = "filter"
    /\ \E raw_altitude \in RawF \cup {None}, accel \in Accels :
         LET out == Outlier(Aged(filt), raw_altitude)
             outShadow == Outlier(Aged(shadow), raw_altitude)
         IN
         /\ raw_altitude = None => gap < MaxGap
         /\ raw_altitude # None => samples < MaxSamples
         /\ filt' = Update(Aged(filt), raw_altitude, accel)
         /\ samples' = IF raw_altitude = None THEN samples ELSE samples + 1
         /\ gap' = IF raw_altitude = None THEN gap + 1 ELSE 0
         /\ first' = IF first = None THEN raw_altitude ELSE first
         /\ last' = [raw |-> raw_altitude,
                     ret |-> Returned(Aged(filt), raw_altitude, filt'),
                     gapBefore |-> gap,
                     out |-> out,
                     vel |-> filt.velocity]
         /\ shadow' = IF outlier = "none" /\ out THEN Aged(shadow)
                      ELSE Update(Aged(shadow), raw_altitude, accel)
         /\ outlier' = IF raw_altitude = None \/ outlier = "void" THEN outlier
                       ELSE IF outlier = "none"
                       THEN (IF out THEN "fed" ELSE "none")
                       ELSE IF out \/ outShadow THEN "void" ELSE "followed"
    /\ UNCHANGED <<prog, sfVars, aacVars, laterVars>>

NextFilter == FilterUpdate

SpecFilter == InitFilter /\ [][NextFilter]_vars

(***************************************************************************)
(* Properties of AltitudeFilter                                            *)
(***************************************************************************)
\* the filter f with every raw altitude it remembers raised by c
Shifted(f, c) ==
    [f EXCEPT !.home_altitude = IF @ = None THEN None ELSE @ + c,
              !.last_raw_alt = IF @ = None THEN None ELSE @ + c]

\* C9: home_altitude is unset until the first call of update with an altitude
\* and is that altitude ever after, whatever is fed later; that first call
\* returns 0; and the estimate is relative to home: with the remembered raw
\* altitudes and the next sample raised by the same amount, update gives the
\* same estimate.
C9_HomeSetOnce ==
    prog = "filter" =>
        /\ filt.home_altitude = None <=> first = None
        /\ filt.home_altitude = first
        /\ samples = 0 <=> first = None
        /\ (samples = 1 /\ gap = 0) =>
               last.raw = first /\ last.ret = 0 /\ filt.altitude = 0
        /\ first # None =>
               \A raw_altitude \in RawF, accel \in {<<0, 0, 98>>, <<0, 0, 120>>} :
                   Update(Aged(Shifted(filt, 500)), raw_altitude + 500, accel).altitude
                       = Update(Aged(filt), raw_altitude, accel).altitude

\* C9 witness: home was seeded with 1100, the estimate has moved since, and
\* after absent samples the home sample was fed again
C9_Witness ==
    /\ prog = "filter" /\ first = 1100 /\ samples = 3 /\ gap = 0
    /\ last.raw = 1100 /\ last.gapBefore >= 1
    /\ filt.home_altitude = 1100 /\ filt.altitude # 0

\* one call of update, as C10 wants it
C10_Step ==
    /\ gap' = gap + 1 =>
         /\ filt'.home_altitude = filt.home_altitude
         /\ filt'.altitude = filt.altitude
         /\ filt'.velocity = filt.velocity
         /\ filt'.stationary_count = filt.stationary_count
         /\ filt'.last_raw_alt = filt.last_raw_alt
         /\ filt'.last_update = Aged(filt).last_update
         /\ last'.ret = filt.altitude
    /\ (samples' = samples + 1 /\ gap >= 1 /\ filt.home_altitude # None) =>
         LET relative_alt == last'.raw - filt.home_altitude
             dt == Aged(filt).last_update
             held == /\ filt'.altitude = filt.altitude
                     /\ filt'.velocity = filt.velocity
             drift == /\ filt'.altitude = (filt.altitude * 95 + relative_alt * 5) \div 100
                      /\ filt'.velocity = 0
             moving == filt'.altitude =
                           ((filt.altitude + (filt'.velocity * dt) \div 1000) * 90
                            + relative_alt * 10) \div 100
         IN  /\ filt'.home_altitude = filt.home_altitude
             /\ last'.ret = filt'.altitude
             /\ IF filt'.stationary_count >= 3 THEN drift
                ELSE IF dt >= 1000 THEN held
                ELSE held \/ moving

\* C10: a call of update without an altitude returns the estimate as it was
\* and changes no field of the filter (last_update only ages); the first call
\* with an altitude after any number of such calls keeps home_altitude and
\* computes the estimate from the held one: it keeps it, or blends it with the
\* new relative altitude.
C10_AbsentHolds == [][prog = "filter" => C10_Step]_vars

\* C10 witness: nine calls without an altitude, then one with, and the held
\* estimate, which is not zero, is kept
C10_Witness ==
    /\ prog = "filter" /\ last.gapBefore = 9 /\ last.raw # None /\ samples = 3
    /\ filt.home_altitude = first /\ filt.altitude # 0 /\ last.ret = filt.altitude


(***************************************************************************)
(* AltitudeFilter at rest: a filter in the middle of its life is given the *)
(* same raw altitude again and again.                                      *)
(***************************************************************************)
\* the variables of start_flight while another program runs
SfOff ==
    /\ ver = 1
    /\ pc = [main |-> "off", wd |-> "off"]
    /\ sleep = [main |-> 0, wd |-> 0]
    /\ proc = "running"
    /\ vehicle = FALSE
    /\ armedFor = None
    /\ faults = 0
    /\ closed = FALSE
    /\ ekf_ok = TRUE
    /\ fcArmed = FALSE
    /\ fcCmd = "none"
    /\ rc3 = 0
    /\ overrides3 = 0
    /\ timeout = 0
    /\ ekf_timeout = 0
    /\ elapsed = 0
    /\ current = 0
    /\ inSignal = FALSE
    /\ armResult = "none"
    /\ wdCheck = [elapsed |-> None, fired |-> FALSE]
    /\ clearCalls = 0
    /\ disarmCalls = [main |-> 0, wd |-> 0]
    /\ report = "none"
    /\ fkRuns = 0
    /\ fkSnap = <<>>

\* the variables of autonomous_altitude_control.py, the filter's left out
AacIdleVars ==
    /\ target_altitude = 0
    /\ home_altitude = 0
    /\ current_throttle = 0
    /\ channel3 = 0
    /\ current_mode = ""
    /\ overrideAge = 0
    /\ stdin = <<>>
    /\ keys = 0
    /\ phase = "IDLE"
    /\ phaseLog = <<>>
    /\ scen = FALSE
    /\ sample = None
    /\ prevMode = ""
    /\ landing_raw = None
    /\ zSeen = "none"

\* filtered altitudes the filter may hold when the rest begins, mm
SettleAlts == {-400, -21, -1, 0, 1, 19, 20, 1000}

\* a filter after some flight: its estimate, velocity and stationary run are
\* what earlier calls left; shadow keeps this filter, first the raw altitude
\* fed from now on
InitSettle ==
    /\ LaterOff
    /\ SfOff
    /\ AacIdleVars
    /\ prog = "settle"
    /\ \E altitude \in SettleAlts, velocity \in {0, 300}, count \in {0, 2, 3},
          home \in RawF, raw \in RawF, prev \in RawF :
         /\ count >= STATIONARY_READINGS => velocity = 0
         /\ filt = [altitude |-> altitude, velocity |-> velocity, last_update |-> 0,
                    stationary_count |-> count, home_altitude |-> home,
                    last_raw_alt |-> prev]
         /\ first = raw
    /\ shadow = filt
    /\ samples = 0
    /\ gap = 0
    /\ last = [raw |-> None, ret |-> filt.altitude, gapBefore |-> 0,
               out |-> FALSE, vel |-> filt.velocity]
    /\ outlier = "none"

\* one more call of update with the same raw altitude
SettleUpdate ==
    /\ prog = "settle"
    /\ samples < MaxSettle
    /\ \E accel \in Accels :
         /\ filt' = Update(Aged(filt), first, accel)
         /\ last' = [raw |-> first, ret |-> Returned(Aged(filt), first, filt'),
                     gapBefore |-> 0, out |-> Outlier(Aged(filt), first),
                     vel |-> filt.velocity]
    /\ samples' = samples + 1
    /\ UNCHANGED <<prog, sfVars, aacVars, laterVars, gap, first, shadow, outlier>>

NextSettle == SettleUpdate

SpecSettle == InitSettle /\ [][NextSettle]_vars

\* one call of update in the stationary branch, as C12 wants it
C12_Step ==
    (samples' = samples + 1 /\ filt'.stationary_count >= STATIONARY_READINGS) =>
        LET r == first - filt.home_altitude
            d == Abs(filt.altitude - r)
            dNext == Abs(filt'.altitude - r)
        IN  /\ dNext <= d
            /\ filt.altitude >= r => filt'.altitude >= r
            /\ filt.altitude <= r => filt'.altitude <= r
            /\ d >= 20 => dNext < d
            /\ 100 * dNext <= DRIFT_WEIGHT * d + 100
            /\ filt'.velocity = 0
            /\ last'.ret = filt'.altitude

\* C12: every update in the stationary branch (stationary_count >= 3) with the
\* relative altitude r moves the estimate towards r and never past it: the
\* distance to r does not grow, shrinks to 95 % (to the millimetre) and so
\* shrinks strictly while it is 20 mm or more; the velocity estimate is 0 after
\* the update.
C12_DriftConverges == [][prog = "settle" => C12_Step]_vars

\* C12 witness: three updates in a row took the stationary branch and brought
\* an estimate of 1000 mm below 860 mm, on its way to r = 0
C12_Witness ==
    /\ prog = "settle" /\ samples >= 3 /\ filt.stationary_count >= 3 + 3
    /\ shadow.altitude = 1000 /\ first = filt.home_altitude
    /\ filt.altitude < 860 /\ filt.altitude > 0 /\ filt.velocity = 0

\* C11: a sample whose raw velocity is 5 m/s or more leaves the velocity
\* estimate as it was (or at the 0 of the stationary branch), and once such a
\* sample was fed and ordinary samples followed it, altitude and velocity are
\* those of the filter that never got it.
C11_OutlierLeavesNoTrace ==
    prog = "filter" =>
        /\ last.out => filt.velocity \in {last.vel, 0}
        /\ outlier = "followed" =>
               /\ filt.altitude = shadow.altitude
               /\ filt.velocity = shadow.velocity

\* C11, first half alone: an outlier is never blended into the velocity
C11_VelocityKept ==
    (prog = "filter" /\ last.out) => filt.velocity \in {last.vel, 0}

\* C11: an outlier, then a gap, then an ordinary sample: the velocity estimate
\* took in the way back from the outlier, the other filter's did not
C11_TraceLeft ==
    /\ prog = "filter" /\ outlier = "followed" /\ ~last.out
    /\ last.gapBefore >= 1
    /\ shadow.velocity = 0 /\ filt.velocity # 0
    /\ filt.altitude # shadow.altitude

(***************************************************************************)
(* autonomous_flight.py: the flight by NED velocity setpoints.  The        *)
(* altitude filter is the sensor side here: every call of update gives     *)
(* some filtered altitude and lets stationary_count grow by one, fall to   *)
(* 0, or stay (no altitude in this call).                                  *)
(***************************************************************************)
\* filtered altitudes update may return, mm
NedAlts == {0, 29, 30, 50, 350, 451, 900}

InitNed ==
    /\ AacOff
    /\ NedOff
    /\ StreamOff
    /\ ItOff
    /\ BeOff
    /\ prog = "ned"
    /\ ver = 1
    /\ pc = [main |-> "n_connect", wd |-> "off"]
    /\ sleep = [main |-> 0, wd |-> 0]
    /\ proc = "running"
    /\ vehicle = FALSE
    /\ armedFor = None
    /\ faults = 0
    /\ closed = FALSE
    /\ ekf_ok = TRUE
    /\ fcArmed = FALSE
    /\ fcCmd = "none"
    /\ rc3 = 0
    /\ overrides3 = 0
    /\ timeout = 0
    /\ ekf_timeout = 0
    /\ elapsed = 0
    /\ current = 0
    /\ inSignal = FALSE
    /\ armResult = "none"
    /\ wdCheck = [elapsed |-> None, fired |-> FALSE]
    /\ clearCalls = 0
    /\ disarmCalls = [main |-> 0, wd |-> 0]
    /\ report = "none"
    /\ fkRuns = 0
    /\ fkSnap = <<>>

\* what no step of autonomous_flight.py changes
nedFixed == <<prog, ver, armedFor, ekf_ok, locVars, wdCheck, fkhVars, armResult,
              aacVars, afVars, streamVars, itVars, beVars>>
\* what a step that sends no arm or disarm command leaves alone
nedQuiet == <<nedFixed, proc, fcVars, callVars>>
\* the altitude side
nedSensor == <<current_alt, stationary_count>>
\* the call of goto_altitude_ned
nedCall == <<leg, success>>

\* the flight enters the part st
Stage(st) == stages' = Append(stages, st)

\* a mission that goes on whatever goto_altitude_ned returned
AbortNever(ret) == FALSE

\* if not success: raise Exception("Altitude target failed")
Abort(ret) == ret # "True"

\* while time.time() - start_time < duration, left
Expired(t, duration) == t >= duration

\* a climb at the speed of the altitude error
GotoVelocityUnbounded(altitude_error) == 0 - altitude_error

\* goto_altitude_ned: velocity_z for the altitude error (negative z is up)
GotoVelocity(altitude_error) ==
    IF altitude_error > 0
    THEN 0 - (IF CLIMB_RATE < Abs(altitude_error) THEN CLIMB_RATE
              ELSE Abs(altitude_error))
    ELSE IF DESCENT_RATE < Abs(altitude_error) THEN DESCENT_RATE
         ELSE Abs(altitude_error)

\* max(lo, min(hi, x))
Clamp(lo, hi, x) == IF x > hi THEN (IF hi < lo THEN lo ELSE hi)
                    ELSE IF x < lo THEN lo ELSE x

\* a hover correction without a dead band, in whole mm/s
HoverClamped(altitude_error) ==
    Clamp(0 - HOVER_RATE, HOVER_RATE, (0 - altitude_error) \div 2)

\* the hover loop: velocity_z = max(-0.1, min(0.1, altitude_error * -0.5)) when
\* the error is more than 0.05, else 0
HoverVelocity(altitude_error) ==
    IF Abs(altitude_error) > HOVER_BAND
    THEN Clamp(0 - HOVER_RATE, HOVER_RATE, (0 - altitude_error) \div 2)
    ELSE 0

\* a landing test that looks at the altitude alone
LandedLow(alt, count) == alt < LANDED_ALTITUDE

\* current_alt < 0.03 and altitude_filter.stationary_count >= 5
Landed(alt, count) == alt < LANDED_ALTITUDE /\ count >= LANDED_READINGS

\* stationary_count after one more call of update
NextCounts(count) ==
    {count, 0, IF count < MaxCount THEN count + 1 ELSE MaxCount}

\* altitude_filter.update(...): current_alt and stationary_count of this pass
Sampled(alt, count) ==
    /\ alt \in NedAlts
    /\ count \in NextCounts(stationary_count)
    /\ current_alt' = alt
    /\ stationary_count' = count

\* send_ned_velocity(vehicle, 0, 0, velocity_z, duration): the setpoint goes
\* out, taking dt sends of the running loop's time, or send_mavlink raises
SendNed(velocity_z, okPc, dt, excPc) ==
    \/ /\ setpoint' = <<0, 0, velocity_z>>
       /\ loop_time' = loop_time + dt
       /\ Go("main", okPc, 0)
       /\ UNCHANGED faults
    \/ /\ faults < MaxFaults
       /\ faults' = faults + 1
       /\ Go("main", excPc, 0)
       /\ UNCHANGED <<setpoint, loop_time>>

\* connect(); an exception leaves vehicle None
NedConnect ==
    /\ At("main", "n_connect") /\ prog = "ned"
    /\ \E ok \in BOOLEAN :
         /\ vehicle' = ok
         /\ Go("main", IF ok THEN "n_battery" ELSE "n_handler", 0)
    /\ UNCHANGED <<nedFixed, proc, fcVars, callVars, faults, closed, inSignal,
                   report, nedVars>>

\* battery below 30 %: return flight_stats, through finally
NedBattery ==
    /\ At("main", "n_battery")
    /\ \E low \in BOOLEAN : Go("main", IF low THEN "n_finally" ELSE "n_guided", 0)
    /\ UNCHANGED <<nedQuiet, vehicle, faults, closed, inSignal, report, nedVars>>

\* vehicle.mode = VehicleMode("GUIDED") and the waits for the mode and for
\* is_armable, which end when the controller is ready
NedGuided ==
    /\ At("main", "n_guided")
    /\ \/ /\ fcMode' = "GUIDED"
          /\ Go("main", "n_arm", 0)
          /\ UNCHANGED faults
       \/ /\ faults < MaxFaults
          /\ faults' = faults + 1
          /\ Go("main", "n_handler", 0)
          /\ UNCHANGED fcMode
    /\ UNCHANGED <<nedQuiet, vehicle, closed, inSignal, report, setpoint, nedSensor,
                   loop_time, nedCall, stages>>

\* vehicle.armed = True
NedArm ==
    /\ At("main", "n_arm")
    /\ Send("main", "arm", 0, "n_arm_wait", 0, "n_handler")
    /\ UNCHANGED <<nedFixed, proc, vehicle, closed, inSignal, report, nedVars>>

\* while not vehicle.armed; then the ten calls of update that start the filter
NedArmWait ==
    /\ At("main", "n_arm_wait")
    /\ fcArmed
    /\ stationary_count' \in 0..MaxCount
    /\ Go("main", "n_climb", 0)
    /\ UNCHANGED <<nedQuiet, vehicle, faults, closed, inSignal, report, setpoint,
                   current_alt, loop_time, nedCall, fcMode, stages>>

\* success = goto_altitude_ned(vehicle, TARGET_ALTITUDE, ..., duration=30)
NedClimb ==
    /\ At("main", "n_climb")
    /\ leg' = "climb"
    /\ loop_time' = 0
    /\ Stage("ASCEND")
    /\ Go("main", "n_goto", 0)
    /\ UNCHANGED <<nedQuiet, vehicle, faults, closed, inSignal, report, setpoint,
                   nedSensor, success, fcMode>>

\* goto_altitude_ned, one pass of its loop: the time test, then the sample,
\* then the return of True or the next setpoint
NedGoto ==
    /\ At("main", "n_goto")
    /\ LET target == IF leg = "climb" THEN TARGET_ALTITUDE ELSE 0
           back == IF leg = "climb" THEN "n_climb_ret" ELSE "n_descent_ret"
       IN  IF Expired(loop_time, GOTO_DURATION)
           THEN /\ success' = "False"
                /\ Go("main", back, 0)
                /\ UNCHANGED <<setpoint, nedSensor, loop_time, faults>>
           ELSE \E alt \in NedAlts, count \in NextCounts(stationary_count) :
                  /\ Sampled(alt, count)
                  /\ IF Abs(target - alt) < NED_ALTITUDE_TOLERANCE
                     THEN /\ SendNed(0, back, 0, "n_handler")
                          /\ success' = IF pc'["main"] = back THEN "True"
                                        ELSE success
                     ELSE /\ SendNed(GotoVelocity(target - alt), "n_goto", 1,
                                     "n_handler")
                          /\ UNCHANGED success
    /\ UNCHANGED <<nedQuiet, vehicle, closed, inSignal, report, leg, fcMode, stages>>

\* back from the climb: abort, or one more sample and on to the hover
NedClimbRet ==
    /\ At("main", "n_climb_ret")
    /\ IF Abort(success)
       THEN /\ Go("main", "n_handler", 0)
            /\ UNCHANGED <<nedSensor, loop_time, stages>>
       ELSE /\ \E alt \in NedAlts, count \in NextCounts(stationary_count) :
                 Sampled(alt, count)
            /\ loop_time' = 0
            /\ Stage("HOVER")
            /\ Go("main", "n_hover", 0)
    /\ UNCHANGED <<nedQuiet, vehicle, faults, closed, inSignal, report, setpoint,
                   nedCall, fcMode>>

\* the hover loop, one pass; after HOVER_DURATION the descent begins
NedHover ==
    /\ At("main", "n_hover")
    /\ IF Expired(loop_time, HOVER_DURATION)
       THEN /\ leg' = "descent"
            /\ loop_time' = 0
            /\ Stage("DESCEND")
            /\ Go("main", "n_goto", 0)
            /\ UNCHANGED <<setpoint, nedSensor, faults>>
       ELSE /\ \E alt \in NedAlts, count \in NextCounts(stationary_count) :
                 /\ Sampled(alt, count)
                 /\ SendNed(HoverVelocity(TARGET_ALTITUDE - alt), "n_hover", 1,
                            "n_handler")
            /\ UNCHANGED <<leg, stages>>
    /\ UNCHANGED <<nedQuiet, vehicle, closed, inSignal, report, success, fcMode>>

\* back from the descent: a timeout is a warning only; the final landing begins
NedDescentRet ==
    /\ At("main", "n_descent_ret")
    /\ loop_time' = 0
    /\ Stage("FINAL")
    /\ Go("main", "n_final", 0)
    /\ UNCHANGED <<nedQuiet, vehicle, faults, closed, inSignal, report, setpoint,
                   nedSensor, nedCall, fcMode>>

\* the final landing loop, one pass: it ends after 10 s, or when the vehicle
\* is low and at rest
NedFinal ==
    /\ At("main", "n_final")
    /\ IF Expired(loop_time, LAND_DURATION)
       THEN /\ Go("main", "n_stop", 0)
            /\ UNCHANGED <<setpoint, nedSensor, loop_time, faults>>
       ELSE \E alt \in NedAlts, count \in NextCounts(stationary_count) :
              /\ Sampled(alt, count)
              /\ IF Landed(alt, count)
                 THEN /\ Go("main", "n_stop", 0)
                      /\ UNCHANGED <<setpoint, loop_time, faults>>
                 ELSE SendNed(LAND_DESCENT_RATE, "n_final", 1, "n_handler")
    /\ UNCHANGED <<nedQuiet, vehicle, closed, inSignal, report, nedCall, fcMode,
                   stages>>

\* a shutdown that sends the disarm command before the stop setpoint
NedDisarmFirst ==
    /\ At("main", "n_stop")
    /\ Send("main", "disarm", 0, "n_disarm_wait", 0, "n_handler")
    /\ Stage("STOP")
    /\ UNCHANGED <<nedFixed, proc, vehicle, closed, inSignal, report, setpoint,
                   nedSensor, loop_time, nedCall, fcMode>>

\* send_ned_velocity(vehicle, 0, 0, 0, duration=0.5)
NedStop ==
    /\ At("main", "n_stop")
    /\ SendNed(0, "n_disarm", 0, "n_handler")
    /\ Stage("STOP")
    /\ UNCHANGED <<nedQuiet, vehicle, closed, inSignal, report, nedSensor, nedCall,
                   fcMode>>

\* vehicle.armed = False
NedDisarm ==
    /\ At("main", "n_disarm")
    /\ Send("main", "disarm", 0, "n_disarm_wait", 0, "n_handler")
    /\ UNCHANGED <<nedFixed, proc, vehicle, closed, inSignal, report, nedVars>>

\* while vehicle.armed; then the flight statistics
NedDisarmWait ==
    /\ At("main", "n_disarm_wait")
    /\ ~fcArmed
    /\ report' = "success"
    /\ Stage("DISARMED")
    /\ Go("main", "n_finally", 0)
    /\ UNCHANGED <<nedQuiet, vehicle, faults, closed, inSignal, setpoint, nedSensor,
                   loop_time, nedCall, fcMode>>

\* except KeyboardInterrupt / except Exception: if vehicle, stop all movement;
\* an exception in the handler is swallowed.  The loop's locals are dead here
NedHandler ==
    /\ At("main", "n_handler")
    /\ report' = "error"
    /\ Stage("ABORT")
    /\ current_alt' = 0
    /\ loop_time' = 0
    /\ IF vehicle
       THEN \/ /\ setpoint' = <<0, 0, 0>>
               /\ Go("main", "n_h_land", 0)
               /\ UNCHANGED faults
            \/ /\ faults < MaxFaults
               /\ faults' = faults + 1
               /\ Go("main", "n_finally", 0)
               /\ UNCHANGED setpoint
       ELSE Go("main", "n_finally", 0) /\ UNCHANGED <<setpoint, faults>>
    /\ UNCHANGED <<nedQuiet, vehicle, closed, inSignal, stationary_count, nedCall,
                   fcMode>>

\* the handler: vehicle.mode = VehicleMode("LAND"), sleep 2
NedHandlerLand ==
    /\ At("main", "n_h_land")
    /\ \/ /\ fcMode' = "LAND"
          /\ Go("main", "n_h_disarm", 0)
          /\ UNCHANGED faults
       \/ /\ faults < MaxFaults
          /\ faults' = faults + 1
          /\ Go("main", "n_finally", 0)
          /\ UNCHANGED fcMode
    /\ UNCHANGED <<nedQuiet, vehicle, closed, inSignal, report, setpoint, nedSensor,
                   loop_time, nedCall, stages>>

\* the handler: vehicle.armed = False
NedHandlerDisarm ==
    /\ At("main", "n_h_disarm")
    /\ Send("main", "disarm", 0, "n_finally", 0, "n_finally")
    /\ UNCHANGED <<nedFixed, proc, vehicle, closed, inSignal, report, nedVars>>

\* finally: if vehicle, vehicle.close(); return flight_stats
NedFinally ==
    /\ At("main", "n_finally")
    /\ closed' = vehicle
    /\ proc' = "exited_main"
    /\ UNCHANGED <<nedFixed, pc, sleep, vehicle, faults, fcVars, callVars, inSignal,
                   report, nedVars>>

\* where main is inside the try block and outside its handlers
NedTryPcs == {"n_battery", "n_guided", "n_arm", "n_arm_wait", "n_climb", "n_goto",
              "n_climb_ret", "n_hover", "n_descent_ret", "n_final", "n_stop",
              "n_disarm", "n_disarm_wait"}

\* SIGINT: KeyboardInterrupt is raised in the try block
NedInterrupt ==
    /\ Running /\ prog = "ned"
    /\ ~inSignal
    /\ pc["main"] \in NedTryPcs
    /\ inSignal' = TRUE
    /\ Go("main", "n_handler", 0)
    /\ UNCHANGED <<nedQuiet, vehicle, faults, closed, report, nedVars>>

\* the controller takes up the arm command
NedFcArm ==
    /\ Running /\ prog = "ned"
    /\ fcCmd = "arm" /\ ~fcArmed
    /\ fcArmed' = TRUE /\ fcCmd' = "none"
    /\ UNCHANGED <<envVars, faults, closed, ekf_ok, rc3, overrides3>>

NextNed ==
    \/ NedConnect \/ NedBattery \/ NedGuided \/ NedArm \/ NedArmWait \/ NedClimb
    \/ NedGoto \/ NedClimbRet \/ NedHover \/ NedDescentRet \/ NedFinal \/ NedStop
    \/ NedDisarm \/ NedDisarmWait \/ NedHandler \/ NedHandlerLand
    \/ NedHandlerDisarm \/ NedFinally \/ NedInterrupt \/ NedFcArm \/ FcDisarm

SpecNed == InitNed /\ [][NextNed]_vars

\* the main thread runs: a pass of goto_altitude_ned's loop that can be made
\* is made
SpecNedFair == SpecNed /\ WF_vars(NedGoto)

(***************************************************************************)
(* Properties of autonomous_flight.py                                      *)
(***************************************************************************)
InStages(st) == \E i \in 1..Len(stages) : stages[i] = st

\* one step of main, as C13 wants it: goto_altitude_ned returns True only
\* with the altitude of this pass within the tolerance, and then at once;
\* False only when the duration is over; and it makes no pass after that
C13_Step ==
    LET target == IF leg = "climb" THEN TARGET_ALTITUDE ELSE 0
        near == Abs(target - current_alt') < NED_ALTITUDE_TOLERANCE
    IN  pc["main"] = "n_goto" =>
          /\ (pc'["main"] \in {"n_climb_ret", "n_descent_ret"} /\ success' = "True")
                => near /\ ~Expired(loop_time, GOTO_DURATION)
          /\ (pc'["main"] \in {"n_climb_ret", "n_descent_ret"} /\ success' = "False")
                => Expired(loop_time, GOTO_DURATION)
          /\ pc'["main"] = "n_goto"
                => ~near /\ ~Expired(loop_time, GOTO_DURATION)
                   /\ loop_time' = loop_time + 1

\* after a climb that returned False the mission is in its handler or over,
\* and the hover was never entered
C13_Aborted ==
    (prog = "ned" /\ leg = "climb" /\ success = "False") =>
        /\ pc["main"] \in {"n_climb_ret", "n_handler", "n_h_land", "n_h_disarm",
                           "n_finally"}
        /\ ~InStages("HOVER")

C13_WitnessReached ==
    /\ prog = "ned" /\ leg = "climb" /\ success = "True"
    /\ pc["main"] = "n_hover" /\ loop_time > 0

\* C15: the flight leaves the final descent for the stop and the disarm only
\* on a pass that found the altitude below the landed threshold and
\* stationary_count >= 5.
C15_LandedOnlyAtRest ==
    (prog = "ned" /\ pc["main"] \in {"n_stop", "n_disarm", "n_disarm_wait"}) =>
        Landed(current_alt, stationary_count)

\* C15: the final descent ran for its 10 s with the vehicle at 0.9 m and
\* moving, and the disarm command was sent all the same
C15_DisarmedAloft ==
    /\ prog = "ned" /\ pc["main"] = "n_disarm_wait" /\ disarmCalls["main"] = 1
    /\ loop_time = LAND_DURATION
    /\ current_alt = 900 /\ stationary_count = 0
    /\ faults = 0 /\ ~inSignal

(***************************************************************************)
(* The three flight scripts side by side: start_flight.py (both versions), *)
(* autonomous_altitude_control.py and autonomous_flight.py                 *)
(***************************************************************************)
InitLandings == InitFlights \/ InitNed

NextLandings == NextFlights \/ NextNed

SpecLandings == InitLandings /\ [][NextLandings]_vars

\* C16: on the normal landing path the disarm command is issued only after the
\* output was cut to minimum (RC_MIN, THROTTLE_MIN, zero velocity) and the RC
\* overrides were released: when the normal path stands at its disarm, or has
\* issued it, the last throttle written is the minimum, the controller holds
\* no other override, and the last velocity setpoint is zero.
C16_DisarmAfterCut ==
    /\ (prog = "start_flight" /\ pc["main"] = "land_clear") =>
           (rc3 \in {0, RC_MIN} /\ overrides3 \in {0, RC_MIN})
    /\ (prog = "start_flight" /\ pc["main"] \in {"disarm", "disarm_wait"}) =>
           /\ rc3 \in {0, RC_MIN} /\ overrides3 \in {0, RC_MIN}
           /\ pc["wd"] \notin FkPcs => rc3 = 0
    /\ (prog = "aac" /\ pc["main"] = "a_release") =>
           (rc3 = THROTTLE_MIN /\ phase = "LANDED")
    /\ (prog = "aac" /\ pc["main"] \in {"a_disarm", "a_disarm_wait"}) =>
           (rc3 = 0 /\ phase = "LANDED")
    /\ (prog = "ned" /\ pc["main"] \in {"n_disarm", "n_disarm_wait"}) =>
           setpoint = <<0, 0, 0>>
    /\ (pc["main"] \in {"disarm_wait", "a_disarm_wait", "n_disarm_wait"}) =>
           disarmCalls["main"] >= 1

\* C16 witness: autonomous_altitude_control.py has issued the disarm of its
\* shutdown path after a descent, with THROTTLE_MIN written and then released
C16_Witness ==
    /\ prog = "aac" /\ pc["main"] = "a_disarm_wait" /\ disarmCalls["main"] = 1
    /\ rc3 = 0 /\ phase = "LANDED" /\ faults = 0

\* C16: start_flight.py at its disarm after land(), the watchdog not fired
C16_WitnessSF ==
    /\ prog = "start_flight" /\ pc["main"] = "disarm_wait" /\ pc["wd"] \notin FkPcs
    /\ rc3 = 0 /\ overrides3 = RC_MIN /\ disarmCalls["main"] = 1

\* C16: autonomous_flight.py at its disarm after the stop
C16_WitnessNed ==
    /\ prog = "ned" /\ pc["main"] = "n_disarm_wait" /\ disarmCalls["main"] = 1
    /\ setpoint = <<0, 0, 0>> /\ InStages("DESCEND")

\* C17: every NED velocity setpoint sent has no horizontal part and a vertical
\* speed of at most 0.3 m/s, in the climb, the hover, the descent, the final
\* landing, the stop and the handlers.
C17_SetpointBounded ==
    (prog = "ned" /\ setpoint # <<>>) =>
        /\ setpoint[1] = 0 /\ setpoint[2] = 0
        /\ Abs(setpoint[3]) <= CLIMB_RATE

\* C17 witness: the climb sent its full rate at an error of 0.5 m, and later
\* the descent sent its full rate at an error of 0.9 m
C17_Witness ==
    /\ prog = "ned" /\ pc["main"] = "n_goto" /\ leg = "descent"
    /\ current_alt = 900 /\ setpoint = <<0, 0, DESCENT_RATE>>

\* C17: the climb at full rate
C17_WitnessClimb ==
    /\ prog = "ned" /\ pc["main"] = "n_goto" /\ leg = "climb"
    /\ current_alt = 0 /\ setpoint = <<0, 0, 0 - CLIMB_RATE>>

\* altitude errors the commands are computed for, mm: up to MaxError each way
MaxError == 1000

NedErrors == (0 - MaxError) .. MaxError

\* one pass of the hover loop that sent its command
HoverSent ==
    /\ pc["main"] = "n_hover" /\ pc'["main"] = "n_hover"
    /\ loop_time' = loop_time + 1

\* one pass of goto_altitude_ned that sent a velocity towards its target
GotoSent ==
    /\ pc["main"] = "n_goto" /\ pc'["main"] = "n_goto"
    /\ loop_time' = loop_time + 1

\* the climb and the descent command towards the target: up (negative z) from
\* below, down from above
TowardsTarget(altitude_error, velocity_z) ==
    /\ altitude_error > 0 => velocity_z < 0
    /\ altitude_error < 0 => velocity_z > 0

GotoTarget == IF leg = "climb" THEN TARGET_ALTITUDE ELSE 0

\* C24: the hover command is 0 while the altitude is within 0.05 m of the
\* target and clamp(-0.1, 0.1, (target - altitude) * -0.5) outside of that,
\* for every altitude; every velocity the climb and the descent send before
\* the target is reached points towards the target.
C24_HoverBandThenClamp ==
    /\ \A e \in NedErrors :
         /\ HoverVelocity(e) = IF Abs(e) > HOVER_BAND THEN HoverClamped(e)
                               ELSE 0
         /\ Abs(e) >= NED_ALTITUDE_TOLERANCE
               => TowardsTarget(e, GotoVelocity(e))
    /\ [][/\ HoverSent =>
               setpoint'[3] =
                   IF Abs(TARGET_ALTITUDE - current_alt') > HOVER_BAND
                   THEN HoverClamped(TARGET_ALTITUDE - current_alt')
                   ELSE 0
          /\ GotoSent =>
               TowardsTarget(GotoTarget - current_alt', setpoint'[3])]_vars

\* C24: the hover command is clamp(-0.1, 0.1, (target - altitude) * -0.5) for
\* every altitude, and every velocity the climb and the descent send before
\* the target is reached points towards the target.
C24_HoverClamp ==
    [][/\ HoverSent =>
            setpoint'[3] = HoverClamped(TARGET_ALTITUDE - current_alt')
       /\ GotoSent =>
            TowardsTarget(GotoTarget - current_alt', setpoint'[3])]_vars

\* C24: the hover loop at 0.451 m, 0.049 m under the target, has sent 0
C24_InBand ==
    /\ prog = "ned" /\ pc["main"] = "n_hover" /\ loop_time > 0
    /\ current_alt = 451 /\ setpoint = <<0, 0, 0>>
    /\ HoverClamped(TARGET_ALTITUDE - current_alt) # 0

\* C24: the hover loop at 0.35 m has sent -0.075 m/s, and at 0.9 m 0.1 m/s
C24_Proportional ==
    /\ prog = "ned" /\ pc["main"] = "n_hover" /\ loop_time > 0
    /\ current_alt = 350 /\ setpoint = <<0, 0, -75>>

C24_Saturated ==
    /\ prog = "ned" /\ pc["main"] = "n_hover" /\ loop_time > 0
    /\ current_alt = 900 /\ setpoint = <<0, 0, HOVER_RATE>>

\* C24: the climb at 0.35 m has sent -0.15 m/s, the speed of its error
C24_ClimbProportional ==
    /\ prog = "ned" /\ pc["main"] = "n_goto" /\ leg = "climb"
    /\ current_alt = 350 /\ setpoint = <<0, 0, -150>>

(***************************************************************************)
(* drone_scripts/stream_altitude.py: stream_altitude()                     *)
(* One thread.  The AltitudeFilter is the one of the filter program; here  *)
(* its update is taken by its interface: a call with an altitude leaves    *)
(* some estimate in altitude_filter.altitude (0 at the seeding call) and   *)
(* returns it, and the loop never calls it without one.                    *)
(***************************************************************************)
\* altitudes get_raw_altitude returns, mm
StreamRaw == {0, 1100}
\* estimates the filter leaves, mm
StreamAlts == {0, 250, 900}

InitStream ==
    /\ AacOff
    /\ NedOff
    /\ StreamOff
    /\ ItOff
    /\ BeOff
    /\ prog = "stream"
    /\ ver = 1
    /\ pc = [main |-> "s_connect", wd |-> "off"]
    /\ sleep = [main |-> 0, wd |-> 0]
    /\ proc = "running"
    /\ vehicle = FALSE
    /\ armedFor = None
    /\ faults = 0
    /\ closed = FALSE
    /\ ekf_ok = TRUE
    /\ fcArmed = FALSE
    /\ fcCmd = "none"
    /\ rc3 = 0
    /\ overrides3 = 0
    /\ timeout = 0
    /\ ekf_timeout = 0
    /\ elapsed = 0
    /\ current = 0
    /\ inSignal = FALSE
    /\ armResult = "none"
    /\ wdCheck = [elapsed |-> None, fired |-> FALSE]
    /\ clearCalls = 0
    /\ disarmCalls = [main |-> 0, wd |-> 0]
    /\ report = "none"
    /\ fkRuns = 0
    /\ fkSnap = <<>>

\* what no step of stream_altitude.py changes
streamFixed == <<prog, ver, armedFor, ekf_ok, fcVars, locVars, armResult, wdCheck,
                 callVars, fkhVars, report, aacVars, afVars, nedVars, itVars,
                 beVars>>
\* the streaming loop's variables
tickState == <<consecutive_errors, emitted, noAlt, lastTick>>

\* connect(...), the 2 s wait, the buffer flush, the drone id
StreamConnect ==
    /\ At("main", "s_connect") /\ prog = "stream"
    /\ \/ /\ vehicle' = TRUE
          /\ Go("main", "s_init", 0)
          /\ UNCHANGED <<faults, exc>>
       \/ /\ faults < MaxFaults
          /\ faults' = faults + 1
          /\ exc' = "connect"
          /\ Go("main", "s_handler", 0)
          /\ UNCHANGED vehicle
    /\ UNCHANGED <<streamFixed, proc, closed, inSignal, init_i, init_count,
                   estimate, tickState>>

\* for i in range(30): one pass; and what follows the loop: the test of
\* init_count and consecutive_errors = 0
StreamInit ==
    /\ At("main", "s_init")
    /\ IF init_i = INIT_TRIES
       THEN /\ IF init_count = 0
               THEN exc' = "Failed to initialize" /\ Go("main", "s_handler", 0)
               ELSE Go("main", "s_loop", 0) /\ UNCHANGED exc
            /\ UNCHANGED <<init_i, init_count, estimate>>
       ELSE \E raw_alt \in StreamRaw \cup {None} :
              IF raw_alt # None
              THEN /\ \E alt \in StreamAlts :
                        estimate' = IF init_count = 0 THEN 0 ELSE alt
                   /\ init_count' = init_count + 1
                   /\ IF init_count' >= INIT_READINGS
                      THEN Go("main", "s_loop", 0) /\ UNCHANGED init_i
                      ELSE Go("main", "s_init", 0) /\ init_i' = init_i + 1
                   /\ UNCHANGED exc
              ELSE /\ init_i' = init_i + 1
                   /\ Go("main", "s_init", 0)
                   /\ UNCHANGED <<init_count, estimate, exc>>
    /\ UNCHANGED <<streamFixed, proc, vehicle, faults, closed, inSignal, tickState>>

\* a threshold that already takes the tenth gap for a lost connection
LostConnectionAtTen(errors) == errors >= LOST_AFTER

\* if consecutive_errors > 10: raise Exception("Lost connection ...")
LostConnection(errors) == errors > LOST_AFTER

\* if "Lost connection" in str(loop_error): raise
Reraised(error) == error = "Lost connection"

\* one pass of the streaming loop: the reading, the counter, the test, the JSON
\* line, the inner except and the sleep.  The output (json.dumps, print, flush)
\* can raise
StreamTick ==
    /\ At("main", "s_loop")
    /\ \E raw_alt \in StreamRaw \cup {None}, alt \in StreamAlts, raised \in BOOLEAN :
         LET filtered_alt == IF raw_alt # None THEN alt ELSE estimate
             errors == IF raw_alt # None THEN 0 ELSE consecutive_errors + 1
             lost == LostConnection(errors)
             loop_error == IF lost THEN "Lost connection"
                           ELSE IF raised THEN "output" ELSE ""
         IN  /\ raw_alt = None => alt = estimate
             /\ raised => (~lost /\ faults < MaxFaults)
             /\ estimate' = filtered_alt
             /\ consecutive_errors' = errors
             /\ noAlt' = IF raw_alt = None THEN noAlt + 1 ELSE 0
             /\ lastTick' = [raw |-> raw_alt, raised |-> raised]
             /\ faults' = IF raised THEN faults + 1 ELSE faults
             /\ emitted' = IF loop_error = ""
                           THEN [kind |-> "data", altitude |-> filtered_alt,
                                 raw |-> raw_alt, error |-> ""]
                           ELSE emitted
             /\ IF loop_error # "" /\ Reraised(loop_error)
                THEN exc' = loop_error /\ Go("main", "s_handler", 0)
                ELSE Go("main", "s_loop", 0) /\ UNCHANGED exc
    /\ UNCHANGED <<streamFixed, proc, vehicle, closed, inSignal, init_i, init_count>>

\* except Exception as e: the error line
StreamHandler ==
    /\ At("main", "s_handler")
    /\ emitted' = [kind |-> "error", altitude |-> 0, raw |-> None, error |-> exc]
    /\ Go("main", "s_finally", 0)
    /\ UNCHANGED <<streamFixed, proc, vehicle, faults, closed, inSignal, init_i,
                   init_count, estimate, exc, consecutive_errors, noAlt, lastTick>>

\* Ctrl+C: KeyboardInterrupt, handled by the outer except with no output
StreamInterrupt ==
    /\ Running /\ prog = "stream"
    /\ ~inSignal
    /\ pc["main"] \in {"s_connect", "s_init", "s_loop"}
    /\ inSignal' = TRUE
    /\ Go("main", "s_finally", 0)
    /\ UNCHANGED <<streamFixed, proc, vehicle, faults, closed, streamVars>>

\* finally: vehicle.close() if vehicle
StreamFinally ==
    /\ At("main", "s_finally")
    /\ closed' = vehicle
    /\ proc' = "exited_main"
    /\ UNCHANGED <<streamFixed, pc, sleep, vehicle, faults, inSignal, streamVars>>

NextStream ==
    \/ StreamConnect \/ StreamInit \/ StreamTick \/ StreamHandler
    \/ StreamInterrupt \/ StreamFinally

SpecStream == InitStream /\ [][NextStream]_vars

\* a step of the streaming loop
TickStep == prog = "stream" /\ pc["main"] = "s_loop" /\ inSignal' = inSignal

C20_Step ==
    TickStep =>
      /\ consecutive_errors' = noAlt'
      /\ (pc'["main"] = "s_handler") <=> (noAlt' > LOST_AFTER)
      /\ (pc'["main"] = "s_handler") => exc' = "Lost connection"
      /\ lastTick'.raw # None => consecutive_errors' = 0
      /\ (lastTick'.raw = None /\ noAlt' <= LOST_AFTER) =>
            /\ pc'["main"] = "s_loop"
            /\ estimate' = estimate
            /\ ~lastTick'.raised =>
                  emitted' = [kind |-> "data", altitude |-> estimate,
                              raw |-> None, error |-> ""]
      /\ lastTick'.raised => (pc'["main"] = "s_loop" /\ exc' = "none")

\* C20: the streaming loop raises 'Lost connection' exactly on the tick that
\* makes more than 10 ticks in a row without an altitude; a tick with an
\* altitude sets consecutive_errors to 0; up to 10 the loop goes on and prints
\* the held estimate; an exception of the output is swallowed and the loop
\* goes on.
C20_GapsEscalate ==
    /\ [][C20_Step]_vars
    /\ []((prog = "stream" /\ emitted.error = "Lost connection") =>
            noAlt > LOST_AFTER)

\* C20 witness: eleven ticks in a row without an altitude, the error line
\* printed, the connection closed
C20_Witness ==
    /\ prog = "stream" /\ proc = "exited_main" /\ closed
    /\ emitted = [kind |-> "error", altitude |-> 0, raw |-> None,
                  error |-> "Lost connection"]
    /\ noAlt = LOST_AFTER + 1 /\ consecutive_errors = LOST_AFTER + 1

\* C20: the tenth tick in a row without an altitude, its output raised, and
\* the loop goes on
C20_WitnessSwallowed ==
    /\ prog = "stream" /\ pc["main"] = "s_loop" /\ Running
    /\ noAlt = LOST_AFTER /\ lastTick = [raw |-> None, raised |-> TRUE]
    /\ emitted.kind = "data" /\ emitted.altitude = 900

(***************************************************************************)
(* drone_scripts/interactive_throttle.py: interactive_throttle()           *)
(* One thread.  rc_channels holds roll, pitch and throttle (channels 1-3); *)
(* channel 4 stays NEUTRAL and channels 5-8 stay 0.                        *)
(***************************************************************************)
\* percentages handed to pwm_from_percent, in steps of 0.5 %: -10 % .. 110 %
Percents == -20 .. 220
\* (vx, vy) of LOCAL_POSITION_NED, cm/s
Velocities == {<<-600, 600>>, <<3, -3>>}
\* what the keyboard delivers in one pass: nothing, an arrow key, another
\* escape sequence, x, another key
ItKeys == {"none", "up", "down", "esc", "x", "other"}

\* int(x) of a quotient: truncation towards zero
TruncDiv(a, b) == IF a >= 0 THEN a \div b ELSE 0 - ((0 - a) \div b)

\* a conversion that does not clamp the percentage
PwmUnclamped(percent) == 1000 + percent * 5

\* pwm_from_percent: int(1000 + (percent / 100.0) * 1000) of the percentage
\* clamped to 0..100
pwm_from_percent(percent) ==
    LET clamped == IF percent < 0 THEN 0
                   ELSE IF percent > MAX_PERCENT THEN MAX_PERCENT ELSE percent
    IN  1000 + TruncDiv(clamped * 1000, 200)

\* max(-MAX_CORRECTION, min(MAX_CORRECTION, int(kp * v)))
Correction(kp, v) ==
    LET c == TruncDiv(kp * v, 100)
        lo == IF c < MAX_CORRECTION THEN c ELSE MAX_CORRECTION
    IN  IF lo > 0 - MAX_CORRECTION THEN lo ELSE 0 - MAX_CORRECTION

InitThrottle ==
    /\ AacOff
    /\ NedOff
    /\ StreamOff
    /\ BeOff
    /\ prog = "throttle"
    /\ current_percent = START_PERCENT
    /\ rc_channels = <<>>
    /\ rcSent = <<>>
    /\ last_override = 0
    /\ ver = 1
    /\ pc = [main |-> "i_connect", wd |-> "off"]
    /\ sleep = [main |-> 0, wd |-> 0]
    /\ proc = "running"
    /\ vehicle = FALSE
    /\ armedFor = None
    /\ faults = 0
    /\ closed = FALSE
    /\ ekf_ok = TRUE
    /\ fcArmed = FALSE
    /\ fcCmd = "none"
    /\ rc3 = 0
    /\ overrides3 = 0
    /\ timeout = 0
    /\ ekf_timeout = 0
    /\ elapsed = 0
    /\ current = 0
    /\ inSignal = FALSE
    /\ armResult = "none"
    /\ wdCheck = [elapsed |-> None, fired |-> FALSE]
    /\ clearCalls = 0
    /\ disarmCalls = [main |-> 0, wd |-> 0]
    /\ report = "none"
    /\ fkRuns = 0
    /\ fkSnap = <<>>

\* what no step of interactive_throttle.py changes
itFixed == <<prog, ver, armedFor, ekf_ok, locVars, armResult, wdCheck, fkhVars,
             report, aacVars, afVars, nedVars, streamVars, beVars>>
\* what a step that sends leaves alone, besides the script's own variables
itSend == <<itFixed, proc, vehicle, closed, inSignal>>
\* the same for a step that sends nothing
itQuiet == <<itSend, faults, fcVars, callVars>>

\* set_rc_override(master, channels) went out: the step continues at okPc
Received(channels, okPc) ==
    rcSent' = IF pc'["main"] = okPc THEN channels ELSE rcSent

\* mavlink_connection, wait_heartbeat
ItConnect ==
    /\ At("main", "i_connect") /\ prog = "throttle"
    /\ \/ /\ vehicle' = TRUE
          /\ Go("main", "i_mode", 0)
          /\ UNCHANGED faults
       \/ /\ faults < MaxFaults
          /\ faults' = faults + 1
          /\ Go("main", "i_exc", 0)
          /\ UNCHANGED vehicle
    /\ UNCHANGED <<itFixed, proc, closed, inSignal, fcVars, callVars, itVars>>

\* set_mode(master, 'STABILIZED')
ItMode ==
    /\ At("main", "i_mode")
    /\ \/ /\ Go("main", "i_arm", 0)
          /\ UNCHANGED faults
       \/ /\ faults < MaxFaults
          /\ faults' = faults + 1
          /\ Go("main", "i_exc", 0)
    /\ UNCHANGED <<itSend, fcVars, callVars, itVars>>

\* arm_throttle: arducopter_arm()
ItArm ==
    /\ At("main", "i_arm")
    /\ Send("main", "arm", 0, "i_arm_wait", 0, "i_exc")
    /\ UNCHANGED <<itSend, itVars>>

\* arm_throttle: motors_armed_wait(); then the initial throttle
ItInitial ==
    /\ At("main", "i_arm_wait")
    /\ fcArmed
    /\ rc_channels' = <<NEUTRAL, NEUTRAL, pwm_from_percent(current_percent)>>
    /\ Send("main", "raw_set", rc_channels'[3], "i_loop", 0, "i_exc")
    /\ Received(rc_channels', "i_loop")
    /\ last_override' = 0
    /\ UNCHANGED <<itSend, current_percent>>

\* the control loop up to the keyboard: the velocity, the drift corrections
\* and the refresh of the override
ItPass ==
    /\ At("main", "i_loop")
    /\ \E v \in Velocities \cup {<<>>} :
         LET roll == IF v = <<>> THEN NEUTRAL
                     ELSE NEUTRAL + Correction(KP_ROLL, v[2])
             pitch == IF v = <<>> THEN NEUTRAL
                      ELSE NEUTRAL + Correction(KP_PITCH, v[1])
         IN  rc_channels' = <<roll, pitch, rc_channels[3]>>
    /\ IF last_override > REFRESH_AFTER
       THEN /\ Send("main", "raw_set", rc_channels'[3], "i_key", 0, "i_exc")
            /\ Received(rc_channels', "i_key")
            /\ last_override' = 0
       ELSE /\ Go("main", "i_key", 0)
            /\ UNCHANGED <<faults, fcVars, callVars, rcSent, last_override>>
    /\ UNCHANGED <<itSend, current_percent>>

\* an arrow key moves the throttle by step (0: no arrow key, or the limit is
\* reached) and sends it; then the loop sleeps.  waited is the time spent in
\* select or in a read before that
KeyMoves(step, waited, nextPc) ==
    LET moved == /\ step # 0
                 /\ current_percent + step <= MAX_PERCENT
                 /\ current_percent + step >= MIN_PERCENT
    IN  IF moved
        THEN /\ current_percent' = current_percent + step
             /\ rc_channels' = [rc_channels EXCEPT
                                    ![3] = pwm_from_percent(current_percent')]
             /\ Send("main", "raw_set", rc_channels'[3], "i_loop", 0, "i_exc")
             /\ Received(rc_channels', "i_loop")
             /\ last_override' = LOOP_SLEEP
        ELSE /\ Go("main", nextPc, 0)
             /\ last_override' =
                    IF last_override + waited + LOOP_SLEEP < MaxSilence
                    THEN last_override + waited + LOOP_SLEEP ELSE MaxSilence
             /\ UNCHANGED <<faults, fcVars, callVars, current_percent,
                            rc_channels, rcSent>>

ArrowStep(key) == CASE key = "up" -> STEP
                    [] key = "down" -> 0 - STEP
                    [] OTHER -> 0

\* the control loop from the keyboard on: select with its timeout, the key,
\* the new throttle with its send, and the sleep.  An arrow key is the three
\* bytes ESC [ A or ESC [ B, which the terminal delivers together; "esc" is an
\* ESC byte with nothing behind it yet: sys.stdin.read(1) for the second
\* byte does not return
ItKey ==
    /\ At("main", "i_key")
    /\ \E key \in ItKeys :
         IF key = "esc"
         THEN /\ Go("main", "i_esc", 0)
              /\ UNCHANGED <<faults, fcVars, callVars, itVars>>
         ELSE KeyMoves(ArrowStep(key),
                       IF key = "none" THEN SELECT_TIMEOUT ELSE 0,
                       IF key = "x" THEN "i_stop" ELSE "i_loop")
    /\ UNCHANGED itSend

\* the bytes behind a lone ESC arrive, after some time: sys.stdin.read(1)
\* returns, the sequence is an arrow key or is dropped, and the loop goes on
ItEscape ==
    /\ At("main", "i_esc")
    /\ \E key \in {"up", "down", "other"}, waited \in {0, MaxSilence} :
         KeyMoves(ArrowStep(key), waited, "i_loop")
    /\ UNCHANGED itSend

\* cleanup: rc_channels[2] = THROTTLE_MIN, set_rc_override; last_override_time
\* is not read again
ItStop ==
    /\ At("main", "i_stop")
    /\ rc_channels' = [rc_channels EXCEPT ![3] = THROTTLE_MIN]
    /\ Send("main", "raw_set", THROTTLE_MIN, "i_release", 0, "i_exc")
    /\ Received(rc_channels', "i_release")
    /\ last_override' = 0
    /\ UNCHANGED <<itSend, current_percent>>

\* cleanup: release_rc_override
ItRelease ==
    /\ At("main", "i_release")
    /\ Send("main", "raw_clear", 0, "i_disarm", 0, "i_exc")
    /\ Received(<<0, 0, 0>>, "i_disarm")
    /\ UNCHANGED <<itSend, current_percent, rc_channels, last_override>>

\* disarm_throttle: arducopter_disarm()
ItDisarm ==
    /\ At("main", "i_disarm")
    /\ Send("main", "disarm", 0, "i_disarm_wait", 0, "i_exc")
    /\ UNCHANGED <<itSend, itVars>>

\* disarm_throttle: motors_disarmed_wait(); then the summary
ItDisarmWait ==
    /\ At("main", "i_disarm_wait")
    /\ ~fcArmed
    /\ Go("main", "i_finally", 0)
    /\ UNCHANGED <<itQuiet, itVars>>

\* except KeyboardInterrupt / except Exception: if master:
\* release_rc_override(master), outside any try.  The loop's locals are dead
\* here
ItHandler ==
    /\ At("main", "i_exc")
    /\ IF vehicle
       THEN /\ Send("main", "raw_clear", 0, "i_h_disarm", 0, "i_finally")
            /\ Received(<<0, 0, 0>>, "i_h_disarm")
       ELSE /\ Go("main", "i_finally", 0)
            /\ UNCHANGED <<faults, fcVars, callVars, rcSent>>
    /\ current_percent' = START_PERCENT
    /\ rc_channels' = <<>>
    /\ last_override' = 0
    /\ UNCHANGED itSend

\* the handlers' disarm_throttle: arducopter_disarm()
ItHandlerDisarm ==
    /\ At("main", "i_h_disarm")
    /\ Send("main", "disarm", 0, "i_h_wait", 0, "i_finally")
    /\ UNCHANGED <<itSend, itVars>>

\* the handlers' disarm_throttle: motors_disarmed_wait()
ItHandlerWait ==
    /\ At("main", "i_h_wait")
    /\ ~fcArmed
    /\ Go("main", "i_finally", 0)
    /\ UNCHANGED <<itQuiet, itVars>>

\* finally: if master: release_rc_override(master), master.close()
ItFinally ==
    /\ At("main", "i_finally")
    /\ IF vehicle
       THEN \/ /\ Apply("raw_clear", 0, TRUE)
               /\ rcSent' = <<0, 0, 0>>
               /\ clearCalls' = clearCalls + 1
               /\ closed' = TRUE
               /\ UNCHANGED faults
            \/ /\ faults < MaxFaults
               /\ faults' = faults + 1
               /\ clearCalls' = clearCalls + 1
               /\ UNCHANGED <<fcVars, rcSent, closed>>
       ELSE UNCHANGED <<fcVars, rcSent, clearCalls, closed, faults>>
    /\ proc' = "exited_main"
    /\ UNCHANGED <<itFixed, pc, sleep, vehicle, inSignal, disarmCalls,
                   current_percent, rc_channels, last_override>>

\* where main is inside the try block and outside its handlers
ItTryPcs == {"i_connect", "i_mode", "i_arm", "i_arm_wait", "i_loop", "i_key",
             "i_esc", "i_stop", "i_release", "i_disarm", "i_disarm_wait"}

\* Ctrl+C: KeyboardInterrupt is raised in the try block
ItInterrupt ==
    /\ Running /\ prog = "throttle"
    /\ ~inSignal
    /\ pc["main"] \in ItTryPcs
    /\ inSignal' = TRUE
    /\ Go("main", "i_exc", 0)
    /\ UNCHANGED <<itFixed, proc, vehicle, closed, faults, fcVars, callVars, itVars>>

\* the controller takes up the arm command
ItFcArm ==
    /\ Running /\ prog = "throttle"
    /\ fcCmd = "arm" /\ ~fcArmed
    /\ fcArmed' = TRUE /\ fcCmd' = "none"
    /\ UNCHANGED <<envVars, faults, closed, ekf_ok, rc3, overrides3>>

NextThrottle ==
    \/ ItConnect \/ ItMode \/ ItArm \/ ItInitial \/ ItPass \/ ItKey \/ ItEscape
    \/ ItStop
    \/ ItRelease \/ ItDisarm \/ ItDisarmWait \/ ItHandler \/ ItHandlerDisarm
    \/ ItHandlerWait \/ ItFinally \/ ItInterrupt \/ ItFcArm \/ FcDisarm

(***************************************************************************)
(* The two RC override scripts side by side: autonomous_altitude_control   *)
(* and interactive_throttle                                                *)
(***************************************************************************)
InitControls == InitAAC \/ InitThrottle

NextControls == NextAAC \/ NextThrottle

SpecControls == InitControls /\ [][NextControls]_vars

PwmRange == THROTTLE_MIN .. THROTTLE_MAX

TiltRange == (NEUTRAL - MAX_CORRECTION) .. (NEUTRAL + MAX_CORRECTION)

\* C18: every throttle written to the RC override while it is active lies in
\* [THROTTLE_MIN, THROTTLE_MAX], the roll and pitch overrides lie within
\* NEUTRAL +/- 200, after any altitude samples and key presses, and
\* pwm_from_percent maps every percentage into [1000, 2000].
C18_OverridesInRange ==
    /\ \A percent \in Percents : pwm_from_percent(percent) \in PwmRange
    /\ (prog = "throttle" /\ rc_channels # <<>>) =>
           /\ rc_channels[1] \in TiltRange /\ rc_channels[2] \in TiltRange
           /\ rc_channels[3] \in PwmRange
    /\ (prog = "throttle" /\ rcSent \notin {<<>>, <<0, 0, 0>>}) =>
           /\ rcSent[1] \in TiltRange /\ rcSent[2] \in TiltRange
           /\ rcSent[3] \in PwmRange
    /\ (prog = "throttle" /\ rc3 # 0) => rc3 \in PwmRange
    /\ (prog = "aac" /\ rc3 # 0) => rc3 \in PwmRange
    /\ (prog = "aac" /\ current_throttle # 0) => current_throttle \in PwmRange

\* C18 witness: interactive_throttle after 84 presses of the up arrow, at
\* full throttle with both corrections at their limits
C18_Witness ==
    /\ prog = "throttle" /\ current_percent = MAX_PERCENT
    /\ rcSent = <<NEUTRAL + MAX_CORRECTION, NEUTRAL - MAX_CORRECTION, THROTTLE_MAX>>
    /\ rc3 = THROTTLE_MAX

\* C18: interactive_throttle at minimum throttle after 116 presses of the
\* down arrow, with a small correction
C18_WitnessLow ==
    /\ prog = "throttle" /\ current_percent = MIN_PERCENT
    /\ rcSent = <<NEUTRAL - 1, NEUTRAL + 1, THROTTLE_MIN>>

\* C18: autonomous_altitude_control with the climb throttle written
C18_WitnessAac ==
    /\ prog = "aac" /\ rc3 = CLIMB_PWM /\ pc["main"] = "a_poll"

\* the scripts keep running: the passes of the two control loops and their
\* keyboard polls are taken whenever they can be; what the keyboard, the
\* sensor and the flight controller do is left open
SpecControlsRun ==
    SpecControls /\ WF_vars(AacControl \/ AacPoll \/ ItPass \/ ItKey)

KeyboardPcs == {"a_poll", "i_key", "i_esc"}

\* C22: the keyboard never holds up a control loop: a loop that has come to
\* its keyboard poll leaves it again, whatever was typed (nothing, an arrow
\* key, another key, a lone ESC byte), so that the next pass with its RC
\* override refresh is reached.
C22_KeyboardNeverBlocks ==
    (prog \in {"aac", "throttle"} /\ pc["main"] \in KeyboardPcs)
        ~> (pc["main"] \notin KeyboardPcs)

\* C22: what the keyboard poll of autonomous_altitude_control.py does: the
\* main loop leaves it in every pass
C22_AacPollReturns ==
    (prog = "aac" /\ pc["main"] = "a_poll") ~> (pc["main"] # "a_poll")

\* C22: interactive_throttle.py armed, with a flight throttle in the override,
\* in sys.stdin.read(1) behind a lone ESC byte
C22_ReadBlocked ==
    /\ prog = "throttle" /\ pc["main"] = "i_esc" /\ fcArmed
    /\ rcSent # <<>> /\ rcSent[3] > THROTTLE_MIN /\ rc3 = rcSent[3]

(***************************************************************************)
(* The calls that wait for the flight controller                           *)
(***************************************************************************)
ProgAAC ==
    \/ AacConnect \/ AacArm \/ AacArmWait \/ AacIdle \/ AacWaitKey \/ AacClimb
    \/ AacControl \/ AacPoll \/ AacLand \/ AacLanding \/ AacRelease \/ AacDisarm
    \/ AacDisarmWait \/ AacExc \/ AacHandlerMin \/ AacHandlerRelease
    \/ AacHandlerDisarm \/ AacHandlerWait \/ AacFinally \/ AacClose \/ AacEnd

\* the scripts run and time passes; the keyboard, the signal and the flight
\* controller are not obliged to do anything
SpecFlightsRun == SpecFlights /\ WF_vars(ProgSF) /\ WF_vars(ProgAAC)

\* main inside arm_vehicle, disarm, arm_throttle, disarm_throttle
ArmCallPcs == {"arm_send", "arm_loop", "arm_retry"}

WaitCallPcs == {"disarm", "disarm_wait", "a_arm", "a_arm_wait", "a_disarm",
                "a_disarm_wait"}

\* C23: a call that arms or disarms returns after a bounded wait, also when
\* the flight controller never reports the state asked for: main, once inside
\* such a call, leaves it again (or the process has ended meanwhile).
C23_CallsReturn ==
    (Running /\ pc["main"] \in ArmCallPcs \cup WaitCallPcs)
        ~> (~Running \/ pc["main"] \notin ArmCallPcs \cup WaitCallPcs)

\* C23: what arm_vehicle of start_flight.py does: it returns, with the
\* failure result when its 10 s are over and the vehicle is not armed
C23_ArmVehicleReturns ==
    /\ (Running /\ pc["main"] \in ArmCallPcs)
           ~> (~Running \/ pc["main"] \notin ArmCallPcs)
    /\ [][pc["main"] = "arm_loop" /\ pc'["main"] = "arm_failed"
              => ~fcArmed /\ timeout <= 0 /\ armResult' = "fail"]_vars

\* C23: arm_throttle of autonomous_altitude_control.py in motors_armed_wait()
\* with a controller that has not armed
C23_ArmWaits ==
    /\ prog = "aac" /\ pc["main"] = "a_arm_wait" /\ ~fcArmed /\ fcCmd = "arm"

\* C23: disarm() of start_flight.py in motors_disarmed_wait() with a
\* controller that has not disarmed
C23_DisarmWaits ==
    /\ prog = "start_flight" /\ pc["main"] = "disarm_wait" /\ fcArmed
    /\ fcCmd = "disarm" /\ faults = 0

(***************************************************************************)
(* The two altitude controllers side by side: autonomous_altitude_control  *)
(* and autonomous_flight, with their loops running                         *)
(***************************************************************************)
ProgNed ==
    \/ NedConnect \/ NedBattery \/ NedGuided \/ NedArm \/ NedArmWait \/ NedClimb
    \/ NedGoto \/ NedClimbRet \/ NedHover \/ NedDescentRet \/ NedFinal \/ NedStop
    \/ NedDisarm \/ NedDisarmWait \/ NedHandler \/ NedHandlerLand
    \/ NedHandlerDisarm \/ NedFinally

InitPhases == InitAAC \/ InitNed

NextPhases == NextAAC \/ NextNed

\* the scripts run; the keyboard, the sensor and the flight controller are
\* not obliged to do anything
SpecPhases ==
    InitPhases /\ [][NextPhases]_vars /\ WF_vars(ProgAAC) /\ WF_vars(ProgNed)

\* the loops that wait for an altitude: the landing loop of
\* autonomous_altitude_control, the climb and descent, hover and final loops
\* of autonomous_flight
NedLoopPcs == {"n_goto", "n_hover", "n_final"}

AltitudeLoopPcs == {"a_landing"} \cup NedLoopPcs

\* C25: a loop that watches the altitude ends whatever the telemetry does:
\* main, once in such a loop, leaves it again, also when no altitude arrives
\* or the altitude never comes under the landing threshold.
C25_LoopsEnd ==
    (pc["main"] \in AltitudeLoopPcs) ~> (pc["main"] \notin AltitudeLoopPcs)

\* C25: what the loops of autonomous_flight.py do: each ends by its duration
C25_NedLoopsEnd ==
    (pc["main"] \in NedLoopPcs) ~> (pc["main"] \notin NedLoopPcs)

\* C25: the landing loop of autonomous_altitude_control.py still running
\* after passes without an altitude under the threshold, nothing having
\* failed and no key pending
C25_StillLanding ==
    /\ prog = "aac" /\ pc["main"] = "a_landing" /\ phase = "DESCENDING"
    /\ overrideAge = MaxSilence /\ fcArmed /\ stdin = <<>> /\ faults = 0

\* the throttle overrides change only to the minimum or to cleared
OnlyDown ==
    /\ rc3' \in {rc3, 0, RC_MIN}
    /\ overrides3' \in {overrides3, 0, RC_MIN}

\* C26: once the watchdog thread is inside force_kill_motors, no throttle
\* above the minimum is written any more, by either thread, under every
\* interleaving of the two: the throttle override only goes to the minimum or
\* to cleared, and when the watchdog sends its disarm command, waits for the
\* disarm or ends the process, the override at the controller is cleared or
\* at the minimum.
C26_NoThrottleAfterKill ==
    /\ [][pc["wd"] \in FkPcs => OnlyDown]_vars
    /\ [](pc["wd"] \in {"fk_disarm", "fk_wait", "fk2_cmd", "fk2_armed", "fk_exit"}
              => rc3 \in {0, RC_MIN})

\* C26: once the watchdog thread is inside force_kill_motors, no throttle
\* above the minimum is written any more, and when the watchdog has ended the
\* process the override at the controller is cleared.
C26_ClearedAtExit ==
    /\ [][pc["wd"] \in FkPcs => OnlyDown]_vars
    /\ [](proc = "exited_wd" => rc3 = 0)

\* C26: the watchdog is inside force_kill_motors while main is still in its
\* flight plan, the throttle cut of land() written
C26_KillDuringPlan ==
    /\ prog = "start_flight" /\ pc["wd"] \in FkPcs \ {"fk_enter", "fk_exit"}
    /\ pc["main"] \in {"land_clear", "disarm"} /\ ~inSignal /\ faults = 0

\* C26: the watchdog has ended the process while main, in its own
\* force_kill_motors, had written the minimum again after the watchdog's release
C26_MinAtExit ==
    /\ prog = "start_flight" /\ proc = "exited_wd" /\ rc3 = RC_MIN
    /\ pc["main"] = "fk_clear" /\ faults = 0 /\ ~inSignal

\* a run of start_flight.py in which no send raised and no signal came
FaultFreeV1 == prog = "start_flight" /\ ver = 1 /\ faults = 0 /\ ~inSignal

\* C27: in a fault-free run of start_flight.py the flight plan reaches its
\* disarm() and reports success before the watchdog fires, at every offset of
\* the watchdog's 0.5 s polling: when the watchdog fires, main has reported
\* success.
C27_PlanBeatsWatchdog ==
    (FaultFreeV1 /\ wdCheck.fired) => report = "success"

\* C27: the watchdog has fired at 10.0 s with main in the 1 s throttle cut of
\* land(), before its disarm()
C27_KilledInPlan ==
    /\ FaultFreeV1 /\ wdCheck.fired /\ wdCheck.elapsed = MAX_FLIGHT_TIME
    /\ pc["main"] = "land_clear" /\ sleep["main"] > 0 /\ report = "none"
    /\ disarmCalls["main"] = 0

\* C27: at another offset of the polling main has reported success at 10.2 s
\* and the watchdog has not fired
C27_SuccessFirst ==
    /\ FaultFreeV1 /\ ~wdCheck.fired /\ report = "success"
    /\ armedFor = 204 /\ pc["main"] = "finally"

\* C28: in the main loop of autonomous_altitude_control.py, after any altitude
\* samples, current_mode is CLIMBING exactly with current_throttle =
\* CLIMB_PWM, HOVERING exactly with HOVER_PWM, DESCENDING exactly with
\* LAND_PWM, and rc_channels[2] equals current_throttle.
C28_ModeMatchesThrottle ==
    (prog = "aac" /\ pc["main"] \in {"a_loop", "a_poll"}) =>
        /\ current_mode \in {"CLIMBING", "HOVERING", "DESCENDING"}
        /\ current_mode = "CLIMBING" <=> current_throttle = CLIMB_PWM
        /\ current_mode = "HOVERING" <=> current_throttle = HOVER_PWM
        /\ current_mode = "DESCENDING" <=> current_throttle = LAND_PWM
        /\ channel3 = current_throttle

\* C28: the loop has gone from the climb to the hold and, with a sample above
\* the band, to the descent
C28_Witness ==
    /\ prog = "aac" /\ pc["main"] = "a_poll" /\ prevMode = "HOVERING"
    /\ current_mode = "DESCENDING" /\ current_throttle = LAND_PWM
    /\ channel3 = LAND_PWM /\ rc3 = LAND_PWM /\ sample = 115

\* C28: past the loop, in the landing phase, rc_channels[2] is LAND_PWM with
\* current_throttle still that of the hold
C28_AfterLoop ==
    /\ prog = "aac" /\ pc["main"] = "a_landing" /\ channel3 = LAND_PWM
    /\ current_throttle = HOVER_PWM /\ current_mode = "HOVERING"

(***************************************************************************)
(* backend/services: ConnectionService and DroneService, with the          *)
(* DroneRepository, the FlightRepository and the DetectionService behind   *)
(* them.  Each call is one step: the handlers run one after the other on   *)
(* the server's event loop.  The flights table is its status column,       *)
(* flight_id being the row number (no call here deletes a row).            *)
(***************************************************************************)
WIFI_FAIL_THRESHOLD == 5

\* flight records created in one run
MaxFlights == 3

InitBackend ==
    /\ SfOff
    /\ AacOff
    /\ NedOff
    /\ StreamOff
    /\ ItOff
    /\ prog = "backend"
    /\ ssh_connected = FALSE
    /\ wifi_fail_count = 0
    /\ session_fails = 0
    /\ lastCall = [op |-> "none", wifi |-> FALSE, success |-> FALSE,
                   dropped |-> FALSE]
    /\ flights = <<>>
    /\ current_flight_id = None
    /\ detection_process = FALSE

\* what no call of the backend changes
beFixed == <<prog, sfVars, aacVars, afVars, nedVars, streamVars, itVars>>

connVars == <<ssh_connected, wifi_fail_count, session_fails>>

droneVars == <<flights, current_flight_id, detection_process>>

Called(op, wifi, ok, dropped) ==
    lastCall' = [op |-> op, wifi |-> wifi, success |-> ok,
                 dropped |-> dropped]

\* ConnectionService.connect_ssh: already connected, or the ping and the ssh
\* test command, which work or do not; _wifi_fail_count is not touched
ConnectSsh ==
    /\ prog = "backend"
    /\ IF ssh_connected
       THEN /\ Called("connect_ssh", FALSE, TRUE, FALSE)
            /\ UNCHANGED connVars
       ELSE \E r \in {"ok", "no_ping", "ssh_failed"} :
              /\ ssh_connected' = (r = "ok")
              /\ session_fails' = IF r = "ok" THEN 0 ELSE session_fails
              /\ Called("connect_ssh", FALSE, r = "ok", FALSE)
              /\ UNCHANGED wifi_fail_count
    /\ UNCHANGED <<beFixed, droneVars>>

\* ConnectionService.disconnect_ssh; _wifi_fail_count is not touched
DisconnectSsh ==
    /\ prog = "backend"
    /\ ssh_connected' = FALSE
    /\ Called("disconnect_ssh", FALSE, TRUE, FALSE)
    /\ UNCHANGED <<beFixed, wifi_fail_count, session_fails, droneVars>>

\* ConnectionService.get_connection_status, with the result of its WiFi check
GetConnectionStatus ==
    /\ prog = "backend"
    /\ \E wifi_connected \in BOOLEAN :
         IF ssh_connected
         THEN IF ~wifi_connected
              THEN /\ session_fails' = session_fails + 1
                   /\ IF wifi_fail_count + 1 >= WIFI_FAIL_THRESHOLD
                      THEN /\ ssh_connected' = FALSE
                           /\ wifi_fail_count' = 0
                           /\ Called("get_connection_status", FALSE, TRUE, TRUE)
                      ELSE /\ wifi_fail_count' = wifi_fail_count + 1
                           /\ Called("get_connection_status", FALSE, TRUE, FALSE)
                           /\ UNCHANGED ssh_connected
              ELSE /\ wifi_fail_count' = 0
                   /\ session_fails' = 0
                   /\ Called("get_connection_status", TRUE, TRUE, FALSE)
                   /\ UNCHANGED ssh_connected
         ELSE /\ Called("get_connection_status", wifi_connected, TRUE, FALSE)
              /\ UNCHANGED connVars
    /\ UNCHANGED <<beFixed, droneVars>>

\* FlightRepository.end_flight(flight_id, status)
EndFlight(table, flight_id, status) == [table EXCEPT ![flight_id] = status]

\* DroneService.start_flight: the flight record, the video stream, the
\* detection.  start_video_stream wants the SSH session and may fail;
\* start_detection refuses while a detection process exists and may fail
StartFlight ==
    /\ prog = "backend"
    /\ Len(flights) < MaxFlights
    /\ flights' = Append(flights, "in_progress")
    /\ current_flight_id' = Len(flights) + 1
    /\ \E stream_ok \in BOOLEAN, detection_ok \in BOOLEAN :
         LET stream == ssh_connected /\ stream_ok
             detection == stream /\ ~detection_process /\ detection_ok
         IN  /\ detection_process' = (detection_process \/ detection)
             /\ Called("start_flight", FALSE, detection, FALSE)
    /\ UNCHANGED <<beFixed, connVars>>

\* DroneService.stop_flight
StopFlight ==
    /\ prog = "backend"
    /\ IF current_flight_id = None
       THEN /\ Called("stop_flight", FALSE, FALSE, FALSE)
            /\ UNCHANGED droneVars
       ELSE /\ detection_process' = FALSE
            /\ flights' = EndFlight(flights, current_flight_id, "completed")
            /\ current_flight_id' = None
            /\ Called("stop_flight", FALSE, TRUE, FALSE)
    /\ UNCHANGED <<beFixed, connVars>>

\* DroneService.abort_mission
AbortMission ==
    /\ prog = "backend"
    /\ detection_process' = FALSE
    /\ IF current_flight_id = None
       THEN UNCHANGED <<flights, current_flight_id>>
       ELSE /\ flights' = EndFlight(flights, current_flight_id, "aborted")
            /\ current_flight_id' = None
    /\ Called("abort_mission", FALSE, TRUE, FALSE)
    /\ UNCHANGED <<beFixed, connVars>>

NextBackend ==
    \/ ConnectSsh \/ DisconnectSsh \/ GetConnectionStatus
    \/ StartFlight \/ StopFlight \/ AbortMission

SpecBackend == InitBackend /\ [][NextBackend]_vars

\* a get_connection_status made with the SSH session up
Checked == ssh_connected /\ lastCall'.op = "get_connection_status"

\* C29: get_connection_status drops the SSH session only at the 5th failed
\* WiFi check in a row seen during that session: a successful check sets the
\* count to 0 and keeps the session, a check with fewer than 5 failures in a
\* row in this session keeps the session, and failures counted before a
\* disconnect_ssh / connect_ssh do not count for the new session.
C29_DropsAfterFive ==
    [][Checked =>
          /\ lastCall'.wifi => wifi_fail_count' = 0 /\ ssh_connected'
          /\ ~ssh_connected' => session_fails' >= WIFI_FAIL_THRESHOLD
          /\ session_fails' < WIFI_FAIL_THRESHOLD => ssh_connected']_vars

\* C29: what get_connection_status does keep: a successful check sets
\* _wifi_fail_count to 0 and keeps the session, and the session is dropped
\* exactly when _wifi_fail_count reaches 5, whenever those failures were counted
C29_DropsAtCount ==
    [][Checked =>
          /\ lastCall'.wifi => wifi_fail_count' = 0 /\ ssh_connected'
          /\ ~ssh_connected' <=>
                (~lastCall'.wifi /\ wifi_fail_count + 1 >= WIFI_FAIL_THRESHOLD)
          /\ session_fails' <= WIFI_FAIL_THRESHOLD]_vars

\* C29: a session dropped by the first failed check it saw
C29_EarlyDrop ==
    /\ prog = "backend" /\ lastCall.op = "get_connection_status"
    /\ lastCall.dropped /\ ~ssh_connected /\ session_fails = 1

\* C29: a session dropped by its own fifth failed check in a row
C29_DropAtFive ==
    /\ prog = "backend" /\ lastCall.op = "get_connection_status"
    /\ lastCall.dropped /\ ~ssh_connected
    /\ session_fails = WIFI_FAIL_THRESHOLD

\* C30: after any calls of start_flight, stop_flight and abort_mission every
\* flight whose status is in_progress is the current flight, so there is at
\* most one.
C30_OneInProgress ==
    prog = "backend" =>
        \A i \in 1 .. Len(flights) :
            flights[i] = "in_progress" => current_flight_id = i

\* C30: what the calls do keep: the current flight, if any, is in_progress,
\* and a flight that was ended stays ended
C30_CurrentInProgress ==
    (prog = "backend" /\ current_flight_id # None) =>
        /\ current_flight_id \in 1 .. Len(flights)
        /\ flights[current_flight_id] = "in_progress"

\* C30: two flights in_progress after a second start_flight, which failed
\* because the detection of the first was running
C30_Orphaned ==
    /\ prog = "backend" /\ Len(flights) = 2
    /\ flights[1] = "in_progress" /\ flights[2] = "in_progress"
    /\ current_flight_id = 2 /\ detection_process
    /\ lastCall.op = "start_flight" /\ ~lastCall.success

\* C30: a flight left in_progress for good: stop_flight ended the second
\* flight, no flight is current, the first is still in_progress
C30_LeftBehind ==
    /\ prog = "backend" /\ Len(flights) = 2 /\ current_flight_id = None
    /\ flights[1] = "in_progress" /\ flights[2] = "completed"

====
